---- MODULE Spec2Model ----
(***************************************************************************)
(* A model of the ivdownloader server (src/unnamed/part_003, lines 233..). *)
(* One HTTP request is handled per behaviour: a batch download or a single *)
(* page download.  Every await of a handler is a step boundary; the code   *)
(* between two awaits is one action.                                       *)
(*                                                                         *)
(* Strings the code inspects character by character (the page-range        *)
(* expression) are sequences of one-character strings.  Image sources are  *)
(* sequences of tokens ("data:", "image", "/", "png", ";base64,", ...) so  *)
(* that the prefix test and the data-URI pattern are decided by matching.  *)
(***************************************************************************)
EXTENDS Integers, Sequences, FiniteSets, TLC

VARIABLES
    req,          \* req.body of the request being handled
    pc,           \* position of the handler
    pages,        \* const pages = parsePageRange(page_range)
    i,            \* loop index of the page loop
    images,       \* const images = []
    failedPages,  \* const failedPages = []
    browser,      \* let browser = null: "null", "open" or "closed"
    res,          \* the HTTP response object
    sseClients,   \* const sseClients = new Map(): clientId -> connection
    written,      \* what client.write put on each SSE connection
    pdfDoc,       \* const pdfDoc = await PDFDocument.create(): its pages
    choices,      \* how each await of the handler settled so far, in order
    viewer,       \* the behaviours the remote viewer is confined to, {} when to none
    twin,         \* the run compared with this one, when two runs are compared
    conns,        \* the connections GET /api/progress was given, in order of arrival;
                  \* early: given before the run emitted its first event
    uiEnabled,    \* the page's form controls: control.disabled = !uiEnabled
    clicks,       \* the batch clicks of the page: their EventSource and fetch
    statusArea,   \* the page's status area: its textContent and whether it is red
    trace         \* every externally visible operation, in program order

vars == <<req, pc, pages, i, images, failedPages, browser, res, sseClients,
          written, pdfDoc, choices, viewer, twin, conns, uiEnabled, clicks, statusArea,
          trace>>

(***************************************************************************)
(* Bounds of the model.                                                    *)
(***************************************************************************)
MaxPage == 2         \* page numbers 0..MaxPage appear in range expressions
MaxCandidates == 3   \* elements the viewer renders for one selector
MaxRun == 40         \* pages of the longest run whose progress values are examined
MaxConns == 2        \* connections a client opens to the progress channel in one run
MaxSourceLen == 6    \* tokens of an image source after its leading "data:image"
MaxClicks == 1       \* batch clicks on one page

(***************************************************************************)
(* Strings as character sequences; Number() on them.                       *)
(***************************************************************************)
Digits == <<"0", "1", "2", "3", "4", "5", "6", "7", "8", "9">>

DigitChars == {Digits[k] : k \in 1..Len(Digits)}

DigitVal(c) == (CHOOSE k \in 1..Len(Digits) : Digits[k] = c) - 1

RECURSIVE ToStr(_)
ToStr(n) ==
    IF n < 10 THEN <<Digits[n + 1]>>
    ELSE ToStr(n \div 10) \o <<Digits[(n % 10) + 1]>>

RECURSIVE DecimalValue(_)
DecimalValue(s) ==
    IF s = <<>> THEN 0
    ELSE 10 * DecimalValue(SubSeq(s, 1, Len(s) - 1)) + DigitVal(s[Len(s)])

\* Number(str): "" is 0, a run of decimal digits is its value, anything else NaN.
NumberOf(s) ==
    IF \E k \in 1..Len(s) : s[k] \notin DigitChars
    THEN [nan |-> TRUE, val |-> 0]
    ELSE [nan |-> FALSE, val |-> DecimalValue(s)]

\* str.split('-')
RECURSIVE Split(_)
Split(s) ==
    IF \A k \in 1..Len(s) : s[k] # "-" THEN <<s>>
    ELSE LET p == CHOOSE k \in 1..Len(s) :
                    s[k] = "-" /\ \A j \in 1..(k - 1) : s[j] # "-"
         IN <<SubSeq(s, 1, p - 1)>> \o Split(SubSeq(s, p + 1, Len(s)))

parsePageRange(rangeStr) ==
    IF \E k \in 1..Len(rangeStr) : rangeStr[k] = "-"
    THEN LET parts == Split(rangeStr)
             start == NumberOf(parts[1])
             end   == NumberOf(parts[2])
         IN IF start.nan \/ end.nan \/ start.val > end.val THEN <<>>
            ELSE [k \in 1..(end.val - start.val + 1) |-> start.val + k - 1]
    ELSE LET page == NumberOf(rangeStr)
         IN IF page.nan THEN <<>> ELSE <<page.val>>

(***************************************************************************)
(* Image sources and parseDataURI.                                         *)
(***************************************************************************)
B64 == ";base64,"

SrcPng    == <<"data:", "image", "/", "png", B64, "iVBORw0KGgo">>
SrcJpeg   == <<"data:", "image", "/", "jpeg", B64, "/9j/4AAQ">>
SrcSvg    == <<"data:", "image", "/", "svg", "+", "xml", B64, "PHN2Zz4">>
SrcBadPng == <<"data:", "image", "/", "png", B64, "AAAA">>
SrcNoB64  == <<"data:", "image", "/", "png", ";", "utf8", ",", "x">>
SrcHttp   == <<"https:", "/", "/", "viewer", "/", "blank", ".", "gif">>
SrcEmpty  == <<>>

\* tokens that consist of letters and digits only
AlnumTokens == {"data", "image", "png", "jpeg", "jpg", "svg", "xml", "gif",
                "utf8", "viewer", "blank", "x", "AAAA", "iVBORw0KGgo",
                "PHN2Zz4"}

\* token.replace(/[^a-zA-Z0-9]/g, '')
Sanitize(tok) ==
    IF tok \in AlnumTokens THEN <<tok>>
    ELSE IF tok = B64 THEN <<"base64">>
    ELSE IF tok = "/9j/4AAQ" THEN <<"9j4AAQ">>
    ELSE IF tok = "data:" THEN <<"data">>
    ELSE IF tok = "https:" THEN <<"https">>
    ELSE <<>>

RECURSIVE SanitizeAll(_)
SanitizeAll(s) ==
    IF s = <<>> THEN <<>> ELSE Sanitize(Head(s)) \o SanitizeAll(Tail(s))

\* src.startsWith('data:image')
StartsWithDataImage(src) ==
    Len(src) >= 2 /\ src[1] = "data:" /\ src[2] = "image"

NoMatch == [match |-> FALSE]

\* parseDataURI without the handling of a '+' in the subtype
parseDataURIKeepQualifier(dataURI) ==
    IF ~(Len(dataURI) >= 5 /\ dataURI[1] = "data:" /\ dataURI[2] = "image"
         /\ dataURI[3] = "/")
    THEN NoMatch
    ELSE LET cands == {k \in 5..Len(dataURI) : dataURI[k] = B64}
         IN IF cands = {} THEN NoMatch
            ELSE LET k == CHOOSE c \in cands : \A d \in cands : c <= d
                     subtype == SubSeq(dataURI, 4, k - 1)
                 IN [match |-> TRUE,
                     mimeType |-> <<"image", "/">> \o subtype,
                     extension |-> SanitizeAll(subtype),
                     data |-> SubSeq(dataURI, k + 1, Len(dataURI))]

\* dataURI.match(/^data:(image\/(.+?));base64,(.*)$/): the subtype is the
\* shortest non-empty run of tokens followed by ";base64,"; "." never
\* matches a line break.
parseDataURI(dataURI) ==
    IF ~(Len(dataURI) >= 5 /\ dataURI[1] = "data:" /\ dataURI[2] = "image"
         /\ dataURI[3] = "/")
    THEN NoMatch
    ELSE LET cands == {k \in 5..Len(dataURI) : dataURI[k] = B64}
         IN IF cands = {} THEN NoMatch
            ELSE LET k == CHOOSE c \in cands : \A d \in cands : c <= d
                     subtype == SubSeq(dataURI, 4, k - 1)
                     payload == SubSeq(dataURI, k + 1, Len(dataURI))
                     plus == {p \in 1..Len(subtype) : subtype[p] = "+"}
                     first == IF plus = {} THEN subtype
                              ELSE SubSeq(subtype, 1,
                                     (CHOOSE p \in plus : \A q \in plus : p <= q) - 1)
                 IN IF \E p \in 1..Len(dataURI) : dataURI[p] = "\n"
                    THEN NoMatch
                    ELSE [match |-> TRUE,
                          mimeType |-> <<"image", "/">> \o subtype,
                          extension |-> SanitizeAll(first),
                          data |-> payload]

(***************************************************************************)
(* The remote viewer and getImageBase64.                                   *)
(***************************************************************************)
ViewerSources == {SrcPng, SrcJpeg, SrcSvg, SrcBadPng, SrcNoB64, SrcHttp, SrcEmpty}

\* parseDataURI of the sources the viewer serves, computed once
ParsedSources == [src \in ViewerSources |-> parseDataURI(src)]

\* const imageInfo = parseDataURI(base64Image)
imageInfoOf(base64Image) ==
    IF base64Image \in DOMAIN ParsedSources
    THEN ParsedSources[base64Image]
    ELSE parseDataURI(base64Image)

RECURSIVE SeqsUpTo(_, _)
SeqsUpTo(S, n) ==
    IF n = 0 THEN {<<>>}
    ELSE LET shorter == SeqsUpTo(S, n - 1)
         IN shorter \cup {Append(s, x) : s \in shorter, x \in S}

\* What one navigation does: goto resolves, times out or fails otherwise, and
\* the page then holds the elements matching the selector (their src values).
ViewerBehaviours ==
    {[goto |-> "timeout", elems |-> <<>>], [goto |-> "error", elems |-> <<>>]}
    \cup {[goto |-> "ok", elems |-> e] : e \in SeqsUpTo(ViewerSources, MaxCandidates)}

RECURSIVE Filter(_)
Filter(srcs) ==
    IF srcs = <<>> THEN <<>>
    ELSE IF Head(srcs) # <<>> /\ StartsWithDataImage(Head(srcs))
         THEN <<Head(srcs)>> \o Filter(Tail(srcs))
         ELSE Filter(Tail(srcs))

\* what awaiting getImageBase64 yields: a source, null or a thrown error
Returned(src) == [tag |-> "ok", src |-> src, name |-> "", message |-> ""]

ReturnedNull == [tag |-> "null", src |-> <<>>, name |-> "", message |-> ""]

Thrown(name, message) ==
    [tag |-> "throw", src |-> <<>>, name |-> name, message |-> message]

\* SpreadResolve taking the left image of a spread for odd page numbers
SpreadResolveOddFirst(elems, pNum) ==
    LET dataImageSources == Filter(elems)
        numImages == Len(dataImageSources)
    IN IF numImages = 1 THEN Returned(dataImageSources[1])
       ELSE IF numImages = 2
            THEN IF pNum % 2 = 1
                 THEN Returned(dataImageSources[1])
                 ELSE Returned(dataImageSources[2])
            ELSE ReturnedNull

\* page.evaluate callback of getImageBase64
SpreadResolve(elems, pNum) ==
    LET dataImageSources == Filter(elems)
        numImages == Len(dataImageSources)
    IN IF numImages = 1 THEN Returned(dataImageSources[1])
       ELSE IF numImages = 2
            THEN IF pNum % 2 = 0
                 THEN Returned(dataImageSources[1])
                 ELSE Returned(dataImageSources[2])
            ELSE ReturnedNull

\* goto and waitForSelector reject with a TimeoutError after 30 s; a page
\* without an element matching the selector makes waitForSelector time out
getImageBase64(behaviour, pageNumber) ==
    IF behaviour.goto = "timeout"
    THEN Thrown("TimeoutError", "Navigation timeout of 30000 ms exceeded")
    ELSE IF behaviour.goto = "error"
    THEN Thrown("Error", "net::ERR_FAILED")
    ELSE IF behaviour.elems = <<>>
    THEN Thrown("TimeoutError", "Waiting for selector failed: 30000ms exceeded")
    ELSE SpreadResolve(behaviour.elems, pageNumber)

\* every way the await of getImageBase64 can settle, per requested page number
OutcomesOf ==
    [p \in 0..MaxPage |-> {getImageBase64(b, p) : b \in ViewerBehaviours}]

\* an await that resolved with nothing the handler reads
Resolved == [tag |-> "ok", src |-> <<>>, name |-> "", message |-> ""]

\* the record of how the await at one place of a handler settled
Settled(at, ok, message) ==
    [at |-> at, sent |-> FALSE,
     outcome |-> IF ok THEN Resolved ELSE Thrown("Error", message)]

(***************************************************************************)
(* The response object, the SSE registry and the operation trace.  A       *)
(* "world" w = [trace, res, written] is threaded through the statements of *)
(* one step in program order.                                              *)
(***************************************************************************)
NoHeaders == [h \in {} |-> <<>>]

\* updateStatus(message, isError): the text of the status area, as the pieces
\* it is put together from, and its colour
updateStatus(message, isError) == [textContent |-> message, isError |-> isError]

\* the status area before any handler of the page wrote to it
NoStatus == updateStatus(<<>>, FALSE)

FreshResponse ==
    [statusCode |-> 200, headers |-> NoHeaders, headersSent |-> FALSE,
     body |-> <<>>, finished |-> FALSE]

World == [trace |-> trace, res |-> res, written |-> written]

Apply(w) ==
    /\ trace' = w.trace
    /\ res' = w.res
    /\ written' = w.written

Op(w, entry) == [w EXCEPT !.trace = Append(@, entry)]

\* sendProgress calling write on whatever the registry returns: without a
\* registered connection the call throws and the request ends in the 500 answer
sendProgressUnguarded(w, clientId, data) ==
    LET w1 == Op(w, [op |-> "emit", ev |-> data])
    IN IF clientId \in DOMAIN sseClients
       THEN [w1 EXCEPT !.written[sseClients[clientId]] = Append(@, data)]
       ELSE [w1 EXCEPT !.res.statusCode = 500,
                       !.res.body = <<[error |-> "Cannot read properties of undefined"]>>,
                       !.res.finished = TRUE]

\* sendProgress(clientId, data): written to the registered connection, if any
sendProgress(w, clientId, data) ==
    LET w1 == Op(w, [op |-> "emit", ev |-> data])
    IN IF clientId \in DOMAIN sseClients
       THEN [w1 EXCEPT !.written[sseClients[clientId]] = Append(@, data)]
       ELSE w1

\* res.setHeader(name, value)
setHeader(w, name, value) ==
    LET w1 == Op(w, [op |-> "setHeader", name |-> name])
    IN [w1 EXCEPT !.res.headers = (name :> value) @@ @]

\* res.status(code).json(obj); setting a header after the headers went out throws
json(w, code, obj) ==
    IF w.res.headersSent
    THEN Op(w, [op |-> "throw", name |-> "ERR_HTTP_HEADERS_SENT"])
    ELSE LET w1 == Op(w, [op |-> "respond", how |-> "json", status |-> code])
         IN [w1 EXCEPT !.res.statusCode = code,
                       !.res.headers = ("Content-Type" :> "application/json") @@ @,
                       !.res.headersSent = TRUE,
                       !.res.body = <<[error |-> obj]>>,
                       !.res.finished = TRUE]

\* res.send(buffer)
send(w, buffer) ==
    LET w1 == Op(w, [op |-> "respond", how |-> "send", status |-> w.res.statusCode])
    IN [w1 EXCEPT !.res.headersSent = TRUE,
                  !.res.body = Append(@, buffer),
                  !.res.finished = TRUE]

\* archive.append(buffer, {name}) on an archive piped into res
archiveAppend(w, entry) ==
    LET w1 == Op(w, [op |-> "append", page |-> entry.page])
    IN [w1 EXCEPT !.res.body = Append(@, entry)]

\* await archive.finalize() resolving: the archive has been streamed into res
archiveFinalize(w) ==
    LET w1 == Op(w, [op |-> "respond", how |-> "finalize", status |-> w.res.statusCode])
    IN [w1 EXCEPT !.res.headersSent = TRUE, !.res.finished = TRUE]

(***************************************************************************)
(* POST /api/download-batch                                                *)
(***************************************************************************)
\* BatchMissing without the check of clientId
BatchMissingNoClientId(body) ==
    \/ body.group_name = ""
    \/ body.pdf = ""
    \/ body.page_range = <<>>
    \/ body.selector = ""
    \/ body.output_format = ""

BatchMissing(body) ==
    \/ body.group_name = ""
    \/ body.pdf = ""
    \/ body.page_range = <<>>
    \/ body.selector = ""
    \/ body.output_format = ""
    \/ body.clientId = ""

(***************************************************************************)
(* Math.round(((i + 1) / totalPages) * 100) in the double arithmetic of    *)
(* the language. A positive double is [m, e] of value m * 2^e, m its 53    *)
(* significant binary digits held as <<h, c, l>> = h * 2^36 + c * 2^18 + l *)
(* with c, l < 2^18; division and multiplication round to the nearest      *)
(* double, ties to the even one.                                           *)
(***************************************************************************)
Limb == 262144

RECURSIVE Pow2(_)
Pow2(z) == IF z = 0 THEN 1 ELSE 2 * Pow2(z - 1)

\* the number of zeros between the point and the first 1 of r / n (0 < r < n)
RECURSIVE LeadingZeros(_, _)
LeadingZeros(r, n) == IF 2 * r >= n THEN 0 ELSE 1 + LeadingZeros(2 * r, n)

\* the number of binary digits of h > 0
RECURSIVE BitLength(_)
BitLength(h) == IF h = 0 THEN 0 ELSE 1 + BitLength(h \div 2)

\* w \div 2^s for 0 < s < 18
ShiftRight(w, s) ==
    <<w[1] \div Pow2(s),
      (w[2] \div Pow2(s)) + (w[1] % Pow2(s)) * Pow2(18 - s),
      (w[3] \div Pow2(s)) + (w[2] % Pow2(s)) * Pow2(18 - s)>>

\* w + 1
Increment(w) ==
    IF w[3] + 1 < Limb THEN <<w[1], w[2], w[3] + 1>>
    ELSE IF w[2] + 1 < Limb THEN <<w[1], w[2] + 1, 0>>
    ELSE <<w[1] + 1, 0, 0>>

\* w * c for a small integer c
TimesSmall(w, c) ==
    LET lo == w[3] * c
        mid == w[2] * c + (lo \div Limb)
    IN <<w[1] * c + (mid \div Limb), mid % Limb, lo % Limb>>

\* w of 54 to 60 binary digits, followed by non-zero digits iff sticky, rounded to
\* 53 digits, ties to even; shift is the number of digits the rounding dropped
RoundToNearest(w, sticky) ==
    LET s == BitLength(w[1]) + 36 - 53
        dropped == w[3] % Pow2(s)
        guard == dropped \div Pow2(s - 1)
        beyond == sticky \/ dropped % Pow2(s - 1) # 0
        kept == ShiftRight(w, s)
        up == guard = 1 /\ (beyond \/ kept[3] % 2 = 1)
        inc == Increment(kept)
    IN IF ~up THEN [m |-> kept, shift |-> s]
       ELSE IF inc[1] < Pow2(17) THEN [m |-> inc, shift |-> s]
       ELSE [m |-> <<Pow2(16), 0, 0>>, shift |-> s + 1]

\* the double k / n for integers 0 < k <= n < 8192
Divide(k, n) ==
    IF k = n THEN [m |-> <<Pow2(16), 0, 0>>, e |-> 0 - 52]
    ELSE LET z == LeadingZeros(k, n)
             r0 == k * Pow2(z)
             d1 == (r0 * Limb) \div n
             r1 == (r0 * Limb) % n
             d2 == (r1 * Limb) \div n
             r2 == (r1 * Limb) % n
             d3 == (r2 * Limb) \div n
             r3 == (r2 * Limb) % n
             r == RoundToNearest(<<d1, d2, d3>>, r3 # 0)
         IN [m |-> r.m, e |-> r.shift - (z + 54)]

\* the double x * c for an integer 2 <= c < 128
Times(x, c) ==
    LET r == RoundToNearest(TimesSmall(x.m, c), FALSE)
    IN [m |-> r.m, e |-> x.e + r.shift]

\* Math.round(x) for a double 0 < x < 65536: the integer below x + 0.5
MathRound(x) ==
    LET below == 0 - x.e
    IN IF below > 54 THEN 0
       ELSE (x.m[1] \div Pow2(below - 36)) + ((x.m[1] \div Pow2(below - 37)) % 2)

\* Math.round((k / n) * 100) for the run lengths of the model, computed once
Rounded ==
    [n \in 1..(MaxRun + MaxPage) |->
        [k \in 1..n |-> MathRound(Times(Divide(k, n), 100))]]

\* Math.round(((i + 1) / totalPages) * 100), i counted from 0
Progress(idx, totalPages) ==
    IF totalPages \in DOMAIN Rounded
    THEN Rounded[totalPages][idx + 1]
    ELSE MathRound(Times(Divide(idx + 1, totalPages), 100))

\* the validation before the try block
BatchValidate ==
    /\ pc = "start" /\ req.kind = "batch"
    /\ IF BatchMissing(req)
       THEN /\ Apply(json(World, 400, "Missing required parameters."))
            /\ pc' = "done"
            /\ pages' = pages
       ELSE LET parsed == parsePageRange(req.page_range)
            IN IF Len(parsed) = 0
               THEN /\ Apply(json(World, 400, "Invalid page range provided."))
                    /\ pc' = "done"
                    /\ pages' = pages
               ELSE /\ pages' = parsed
                    /\ pc' = "launch"
                    /\ UNCHANGED <<trace, res, written>>
    /\ UNCHANGED <<req, viewer, twin, conns, uiEnabled, clicks, statusArea, i, images, failedPages, browser, sseClients, pdfDoc, choices>>

\* BatchCatch answering the request before it reports on the progress channel
BatchCatchRespondFirst(w, message) ==
    sendProgress(json(w, 500, message), req.clientId,
                 [type |-> "error", message |-> message])

\* catch (error) of the batch handler
BatchCatch(w, message) ==
    LET w1 == sendProgress(w, req.clientId, [type |-> "error", message |-> message])
    IN json(w1, 500, message)

\* browser = await puppeteer.launch(launchOptions)
BatchLaunch ==
    /\ pc = "launch" /\ req.kind = "batch"
    /\ \E ok \in BOOLEAN :
         /\ choices' = Append(choices, Settled("launch", ok, "Failed to launch the browser process"))
         /\ IF ok
            THEN /\ browser' = "open"
                 /\ Apply(Op(World, [op |-> "launch"]))
                 /\ pc' = "newPage"
            ELSE /\ browser' = browser
                 /\ Apply(BatchCatch(World, "Failed to launch the browser process"))
                 /\ pc' = "finally"
    /\ UNCHANGED <<req, viewer, twin, conns, uiEnabled, clicks, statusArea, pages, i, images, failedPages, sseClients, pdfDoc>>

\* BatchNewPage whose failure leaves the handler without passing the finally block
BatchNewPageNoFinally ==
    /\ pc = "newPage" /\ req.kind = "batch"
    /\ \E ok \in BOOLEAN :
         /\ choices' = Append(choices, Settled("newPage", ok, "Protocol error: Target closed"))
         /\ IF ok
            THEN /\ Apply(Op(World, [op |-> "newPage"]))
                 /\ pc' = "loop"
            ELSE /\ Apply(BatchCatch(World, "Protocol error: Target closed"))
                 /\ pc' = "done"
    /\ i' = 0
    /\ images' = <<>>
    /\ failedPages' = <<>>
    /\ UNCHANGED <<req, viewer, twin, conns, uiEnabled, clicks, statusArea, pages, browser, sseClients, pdfDoc>>

\* const puppeteerPage = await browser.newPage()
BatchNewPage ==
    /\ pc = "newPage" /\ req.kind = "batch"
    /\ \E ok \in BOOLEAN :
         /\ choices' = Append(choices, Settled("newPage", ok, "Protocol error: Target closed"))
         /\ IF ok
            THEN /\ Apply(Op(World, [op |-> "newPage"]))
                 /\ pc' = "loop"
            ELSE /\ Apply(BatchCatch(World, "Protocol error: Target closed"))
                 /\ pc' = "finally"
    /\ i' = 0
    /\ images' = <<>>
    /\ failedPages' = <<>>
    /\ UNCHANGED <<req, viewer, twin, conns, uiEnabled, clicks, statusArea, pages, browser, sseClients, pdfDoc>>

\* loop head up to the await of getImageBase64
BatchAttempt ==
    /\ pc = "loop" /\ req.kind = "batch"
    /\ i < Len(pages)
    /\ LET page == pages[i + 1]
           w1 == sendProgress(World, req.clientId,
                     [type |-> "log", isError |-> FALSE,
                      message |-> <<"Fetching page", page, i + 1, Len(pages)>>])
       IN Apply(Op(w1, [op |-> "goto", page |-> page]))
    /\ pc' = "fetching"
    /\ UNCHANGED <<req, viewer, twin, conns, uiEnabled, clicks, statusArea, pages, i, images, failedPages, browser, sseClients, pdfDoc, choices>>

\* PageTry with a catch block that logs the error and records nothing
PageTryDropsThrown(w, imgs, failed, page, outcome) ==
    IF outcome.tag = "ok"
    THEN [w |-> sendProgress(w, req.clientId,
                    [type |-> "log", isError |-> FALSE,
                     message |-> <<"Successfully fetched page", page>>]),
          images |-> Append(imgs, [page |-> page, base64Image |-> outcome.src]),
          failedPages |-> failed,
          thrown |-> FALSE]
    ELSE IF outcome.tag = "null"
    THEN LET reason == "Image source was empty or not found."
         IN [w |-> sendProgress(w, req.clientId,
                       [type |-> "log", isError |-> TRUE,
                        message |-> <<"Failed to fetch page", page, reason>>]),
             images |-> imgs,
             failedPages |-> Append(failed, [page |-> page, reason |-> reason]),
             thrown |-> FALSE]
    ELSE [w |-> w, images |-> imgs, failedPages |-> failed, thrown |-> TRUE]

\* PageTry whose catch block records the error's message whatever its name
PageTryNoTimeoutReason(w, imgs, failed, page, outcome) ==
    IF outcome.tag = "ok"
    THEN [w |-> sendProgress(w, req.clientId,
                    [type |-> "log", isError |-> FALSE,
                     message |-> <<"Successfully fetched page", page>>]),
          images |-> Append(imgs, [page |-> page, base64Image |-> outcome.src]),
          failedPages |-> failed,
          thrown |-> FALSE]
    ELSE LET reason == IF outcome.tag = "null"
                       THEN "Image source was empty or not found."
                       ELSE outcome.message
         IN [w |-> sendProgress(w, req.clientId,
                       [type |-> "log", isError |-> TRUE,
                        message |-> <<"Failed to fetch page", page, reason>>]),
             images |-> imgs,
             failedPages |-> Append(failed, [page |-> page, reason |-> reason]),
             thrown |-> outcome.tag = "throw"]

\* the try/catch around one page, from the result of getImageBase64 on
PageTry(w, imgs, failed, page, outcome) ==
    IF outcome.tag = "ok"
    THEN [w |-> sendProgress(w, req.clientId,
                    [type |-> "log", isError |-> FALSE,
                     message |-> <<"Successfully fetched page", page>>]),
          images |-> Append(imgs, [page |-> page, base64Image |-> outcome.src]),
          failedPages |-> failed,
          thrown |-> FALSE]
    ELSE IF outcome.tag = "null"
    THEN LET reason == "Image source was empty or not found."
         IN [w |-> sendProgress(w, req.clientId,
                       [type |-> "log", isError |-> TRUE,
                        message |-> <<"Failed to fetch page", page, reason>>]),
             images |-> imgs,
             failedPages |-> Append(failed, [page |-> page, reason |-> reason]),
             thrown |-> FALSE]
    ELSE LET reason == IF outcome.name = "TimeoutError"
                       THEN "Timeout waiting for page/selector."
                       ELSE outcome.message
         IN [w |-> sendProgress(w, req.clientId,
                       [type |-> "log", isError |-> TRUE,
                        message |-> <<"Failed to fetch page", page, reason>>]),
             images |-> imgs,
             failedPages |-> Append(failed, [page |-> page, reason |-> reason]),
             thrown |-> TRUE]

\* PageDone without the progress event
PageDoneSilent(w) ==
    /\ Apply(w)
    /\ i' = i + 1
    /\ pc' = "loop"

\* sendProgress(clientId, { type: 'progress', value: progress }) and i++
PageDone(w) ==
    /\ Apply(sendProgress(w, req.clientId,
                 [type |-> "progress", value |-> Progress(i, Len(pages))]))
    /\ i' = i + 1
    /\ pc' = "loop"

\* LoopStep with a catch block that rethrows to the handler's outer catch
LoopStepRethrows(w, thrown) ==
    IF thrown
    THEN /\ Apply(BatchCatch(w, "rethrown"))
         /\ pc' = "finally"
         /\ i' = i
    ELSE /\ Apply(w)
         /\ pc' = "delay"
         /\ i' = i

\* a page that threw was handled by the catch block and goes on to the progress
\* event; otherwise the pacing delay, the last statement of the try block, is awaited
LoopStep(w, thrown) ==
    IF thrown
    THEN PageDone(w)
    ELSE /\ Apply(w)
         /\ pc' = "delay"
         /\ i' = i

\* getImageBase64 settles in one of the given ways
FetchedWith(outcomes) ==
    /\ pc = "fetching" /\ req.kind = "batch"
    /\ \E outcome \in outcomes :
         LET page == pages[i + 1]
             r == PageTry(World, images, failedPages, page, outcome)
         IN /\ choices' = Append(choices, [at |-> "fetch", outcome |-> outcome, sent |-> FALSE])
            /\ images' = r.images
            /\ failedPages' = r.failedPages
            /\ LoopStep(r.w, r.thrown)
    /\ UNCHANGED <<req, viewer, twin, conns, uiEnabled, clicks, statusArea, pages, browser, sseClients, pdfDoc>>

\* getImageBase64 settles, whatever the viewer does
BatchFetched ==
    /\ pc = "fetching" /\ req.kind = "batch"
    /\ FetchedWith(OutcomesOf[pages[i + 1]])

\* getImageBase64 settles on a viewer confined to some behaviours
BatchFetchedShown ==
    /\ pc = "fetching" /\ req.kind = "batch"
    /\ viewer # {}
    /\ FetchedWith({getImageBase64(b, pages[i + 1]) : b \in viewer})

\* await new Promise(resolve => setTimeout(resolve, 1500)) elapses
BatchDelay ==
    /\ pc = "delay" /\ req.kind = "batch"
    /\ PageDone(Op(World, [op |-> "delay"]))
    /\ UNCHANGED <<req, viewer, twin, conns, uiEnabled, clicks, statusArea, pages, images, failedPages, browser, sseClients, pdfDoc, choices>>

\* ExposeFailed without the test for an empty list
ExposeFailedAlways(w, failed) ==
    setHeader(setHeader(w, "X-Failed-Pages", [json |-> failed]),
              "Access-Control-Expose-Headers", "X-Failed-Pages")

\* if (failedPages.length > 0) { res.setHeader('X-Failed-Pages', ...) ... }
ExposeFailed(w, failed) ==
    IF Len(failed) > 0
    THEN setHeader(setHeader(w, "X-Failed-Pages", [json |-> failed]),
                   "Access-Control-Expose-Headers", "X-Failed-Pages")
    ELSE w

\* ZipEntries walking the fetched list from its end
RECURSIVE ZipEntriesNewestFirst(_, _)
ZipEntriesNewestFirst(w, imgs) ==
    IF imgs = <<>> THEN w
    ELSE LET img == imgs[Len(imgs)]
             imageInfo == imageInfoOf(img.base64Image)
             rest == SubSeq(imgs, 1, Len(imgs) - 1)
         IN IF imageInfo.match
            THEN ZipEntriesNewestFirst(
                     archiveAppend(w, [page |-> img.page,
                                       extension |-> imageInfo.extension,
                                       data |-> imageInfo.data]),
                     rest)
            ELSE ZipEntriesNewestFirst(w, rest)

\* for (const img of images) { ... archive.append(...) } of the zip branch
RECURSIVE ZipEntries(_, _)
ZipEntries(w, imgs) ==
    IF imgs = <<>> THEN w
    ELSE LET img == Head(imgs)
             imageInfo == imageInfoOf(img.base64Image)
         IN IF imageInfo.match
            THEN ZipEntries(archiveAppend(w, [page |-> img.page,
                                              extension |-> imageInfo.extension,
                                              data |-> imageInfo.data]),
                            Tail(imgs))
            ELSE ZipEntries(w, Tail(imgs))

\* the zip branch up to the await of archive.finalize()
ZipAssemble(w, imgs) ==
    LET w1 == setHeader(w, "Content-Type", "application/zip")
        w2 == setHeader(w1, "Content-Disposition", <<"attachment", req.group_name, "zip">>)
        w3 == Op(w2, [op |-> "pipe"])
    IN ZipEntries(w3, imgs)

\* pdfDoc.embedPng / pdfDoc.embedJpg accept the bytes of an image of that kind only
EmbedOk(imageInfo) ==
    IF imageInfo.mimeType = <<"image", "/", "png">>
    THEN imageInfo.data = <<"iVBORw0KGgo">>
    ELSE imageInfo.data = <<"/9j/4AAQ">>

\* PdfPages with an embedding failure ending the loop
RECURSIVE PdfPagesStopAtFailure(_)
PdfPagesStopAtFailure(imgs) ==
    IF imgs = <<>> THEN <<>>
    ELSE LET img == Head(imgs)
             imageInfo == imageInfoOf(img.base64Image)
         IN IF ~imageInfo.match THEN PdfPagesStopAtFailure(Tail(imgs))
            ELSE IF imageInfo.mimeType \in {<<"image", "/", "png">>,
                                            <<"image", "/", "jpeg">>,
                                            <<"image", "/", "jpg">>}
                 THEN IF EmbedOk(imageInfo)
                      THEN <<[page |-> img.page]>> \o PdfPagesStopAtFailure(Tail(imgs))
                      ELSE <<>>
                 ELSE PdfPagesStopAtFailure(Tail(imgs))

\* for (const img of images) { ... pdfDoc.addPage ... } of the pdf branch
RECURSIVE PdfPages(_)
PdfPages(imgs) ==
    IF imgs = <<>> THEN <<>>
    ELSE LET img == Head(imgs)
             imageInfo == imageInfoOf(img.base64Image)
         IN IF ~imageInfo.match THEN PdfPages(Tail(imgs))
            ELSE IF imageInfo.mimeType \in {<<"image", "/", "png">>,
                                            <<"image", "/", "jpeg">>,
                                            <<"image", "/", "jpg">>}
                 THEN IF EmbedOk(imageInfo)
                      THEN <<[page |-> img.page]>> \o PdfPages(Tail(imgs))
                      ELSE PdfPages(Tail(imgs))
                 ELSE PdfPages(Tail(imgs))

\* Complete followed by a log event
CompleteThenLog(w) ==
    sendProgress(sendProgress(w, req.clientId,
                              [type |-> "complete", failedPages |-> failedPages]),
                 req.clientId,
                 [type |-> "log", isError |-> FALSE, message |-> <<"Done.">>])

\* sendProgress(clientId, { type: 'complete', failedPages })
Complete(w) ==
    sendProgress(w, req.clientId, [type |-> "complete", failedPages |-> failedPages])

\* NoImages with the comparison mistyped
NoImagesNegative(imgs) == Len(imgs) < 0

\* if (images.length === 0) return res.status(404)...
NoImages(imgs) == Len(imgs) = 0

\* after the loop: the log line, the zero-success exit, the failed-pages header
\* and the choice of the output branch
BatchLoopExit ==
    /\ pc = "loop" /\ req.kind = "batch"
    /\ i >= Len(pages)
    /\ LET w1 == sendProgress(World, req.clientId,
                     [type |-> "log", isError |-> FALSE,
                      message |-> <<"All pages processed. Compiling output file...">>])
       IN IF NoImages(images)
          THEN /\ Apply(json(w1, 404, "No images could be downloaded."))
               /\ pc' = "finally"
          ELSE LET w2 == ExposeFailed(w1, failedPages)
               IN IF req.output_format = "zip"
                  THEN /\ Apply(ZipAssemble(w2, images))
                       /\ pc' = "finalize"
                  ELSE IF req.output_format = "pdf"
                  THEN /\ Apply(w2)
                       /\ pc' = "pdfCreate"
                  ELSE /\ Apply(Complete(w2))
                       /\ pc' = "finally"
    /\ UNCHANGED <<req, viewer, twin, conns, uiEnabled, clicks, statusArea, pages, i, images, failedPages, browser, sseClients, pdfDoc, choices>>

\* ZipFinalize with the complete event sent before the archive is finalized
ZipFinalizeCompleteFirst ==
    /\ pc = "finalize" /\ req.kind = "batch"
    /\ \/ /\ Apply(archiveFinalize(Complete(World)))
          /\ choices' = Append(choices, Settled("finalize", TRUE, ""))
       \/ \E sent \in BOOLEAN :
            /\ Apply(BatchCatch([World EXCEPT !.res.headersSent = sent],
                                "archive finalize failed"))
            /\ choices' = Append(choices, [at |-> "finalize", sent |-> sent,
                                 outcome |-> Thrown("Error", "archive finalize failed")])
    /\ pc' = "finally"
    /\ UNCHANGED <<req, viewer, twin, conns, uiEnabled, clicks, statusArea, pages, i, images, failedPages, browser, sseClients, pdfDoc>>

\* await archive.finalize() settles; when it rejects, part of the archive may
\* already have gone out with the headers
ZipFinalize ==
    /\ pc = "finalize" /\ req.kind = "batch"
    /\ \/ /\ Apply(Complete(archiveFinalize(World)))
          /\ choices' = Append(choices, Settled("finalize", TRUE, ""))
       \/ \E sent \in BOOLEAN :
            /\ Apply(BatchCatch([World EXCEPT !.res.headersSent = sent],
                                "archive finalize failed"))
            /\ choices' = Append(choices, [at |-> "finalize", sent |-> sent,
                                 outcome |-> Thrown("Error", "archive finalize failed")])
    /\ pc' = "finally"
    /\ UNCHANGED <<req, viewer, twin, conns, uiEnabled, clicks, statusArea, pages, i, images, failedPages, browser, sseClients, pdfDoc>>

\* await PDFDocument.create() settles and the images are embedded
PdfCreate ==
    /\ pc = "pdfCreate" /\ req.kind = "batch"
    /\ \/ /\ pdfDoc' = PdfPages(images)
          /\ pc' = "pdfSave"
          /\ choices' = Append(choices, Settled("pdfCreate", TRUE, ""))
          /\ UNCHANGED <<trace, res, written>>
       \/ /\ Apply(BatchCatch(World, "PDFDocument.create failed"))
          /\ pc' = "finally"
          /\ choices' = Append(choices, Settled("pdfCreate", FALSE, "PDFDocument.create failed"))
          /\ pdfDoc' = pdfDoc
    /\ UNCHANGED <<req, viewer, twin, conns, uiEnabled, clicks, statusArea, pages, i, images, failedPages, browser, sseClients>>

\* await pdfDoc.save() settles; the document is sent
PdfSave ==
    /\ pc = "pdfSave" /\ req.kind = "batch"
    /\ \/ LET w1 == setHeader(World, "Content-Type", "application/pdf")
              w2 == setHeader(w1, "Content-Disposition",
                              <<"attachment", req.group_name, "pdf">>)
          IN /\ Apply(Complete(send(w2, [pdf |-> pdfDoc])))
             /\ choices' = Append(choices, Settled("pdfSave", TRUE, ""))
       \/ /\ Apply(BatchCatch(World, "pdfDoc.save failed"))
          /\ choices' = Append(choices, Settled("pdfSave", FALSE, "pdfDoc.save failed"))
    /\ pc' = "finally"
    /\ UNCHANGED <<req, viewer, twin, conns, uiEnabled, clicks, statusArea, pages, i, images, failedPages, browser, sseClients, pdfDoc>>

\* CloseBrowser that never closes
LeaveBrowser(b) == b

\* finally { if (browser) await browser.close() }
CloseBrowser(b) == IF b = "open" THEN "closed" ELSE b

BatchFinally ==
    /\ pc = "finally" /\ req.kind = "batch"
    /\ browser' = CloseBrowser(browser)
    /\ IF browser = "open"
       THEN Apply(Op(World, [op |-> "close"]))
       ELSE UNCHANGED <<trace, res, written>>
    /\ pc' = "done"
    /\ UNCHANGED <<req, viewer, twin, conns, uiEnabled, clicks, statusArea, pages, i, images, failedPages, sseClients, pdfDoc, choices>>

(***************************************************************************)
(* POST /api/download-single                                               *)
(***************************************************************************)
SingleMissing(body) ==
    \/ body.group_name = ""
    \/ body.pdf = ""
    \/ body.page = 0
    \/ body.selector = ""

SingleValidate ==
    /\ pc = "start" /\ req.kind = "single"
    /\ IF SingleMissing(req)
       THEN /\ Apply(json(World, 400, "Missing required parameters."))
            /\ pc' = "done"
       ELSE /\ pc' = "launch"
            /\ UNCHANGED <<trace, res, written>>
    /\ UNCHANGED <<req, viewer, twin, conns, uiEnabled, clicks, statusArea, pages, i, images, failedPages, browser, sseClients, pdfDoc, choices>>

\* catch (error) of the single-page handler
SingleCatch(w, message) == json(w, 500, message)

SingleLaunch ==
    /\ pc = "launch" /\ req.kind = "single"
    /\ \E ok \in BOOLEAN :
         /\ choices' = Append(choices, Settled("launch", ok, "Failed to launch the browser process"))
         /\ IF ok
            THEN /\ browser' = "open"
                 /\ Apply(Op(World, [op |-> "launch"]))
                 /\ pc' = "newPage"
            ELSE /\ browser' = browser
                 /\ Apply(SingleCatch(World, "Failed to launch the browser process"))
                 /\ pc' = "finally"
    /\ UNCHANGED <<req, viewer, twin, conns, uiEnabled, clicks, statusArea, pages, i, images, failedPages, sseClients, pdfDoc>>

SingleNewPage ==
    /\ pc = "newPage" /\ req.kind = "single"
    /\ \E ok \in BOOLEAN :
         /\ choices' = Append(choices, Settled("newPage", ok, "Protocol error: Target closed"))
         /\ IF ok
            THEN /\ Apply(Op(Op(World, [op |-> "newPage"]),
                             [op |-> "goto", page |-> req.page]))
                 /\ pc' = "fetching"
            ELSE /\ Apply(SingleCatch(World, "Protocol error: Target closed"))
                 /\ pc' = "finally"
    /\ UNCHANGED <<req, viewer, twin, conns, uiEnabled, clicks, statusArea, pages, i, images, failedPages, browser, sseClients, pdfDoc>>

\* from the result of getImageBase64 to the end of the try block
SingleRespond(w, outcome) ==
    IF outcome.tag = "throw" THEN SingleCatch(w, outcome.message)
    ELSE IF outcome.tag = "null"
    THEN json(w, 404, "Image selector not found or image has no src.")
    ELSE LET imageInfo == imageInfoOf(outcome.src)
         IN IF ~imageInfo.match
            THEN json(w, 500, "Invalid Base64 image format.")
            ELSE LET w1 == setHeader(w, "Content-Type", imageInfo.mimeType)
                     w2 == setHeader(w1, "Content-Disposition",
                                     <<"attachment", req.page, imageInfo.extension>>)
                 IN send(w2, imageInfo.data)

SingleFetched ==
    /\ pc = "fetching" /\ req.kind = "single"
    /\ \E outcome \in OutcomesOf[req.page] :
         /\ Apply(SingleRespond(World, outcome))
         /\ choices' = Append(choices, [at |-> "fetch", outcome |-> outcome, sent |-> FALSE])
    /\ pc' = "finally"
    /\ UNCHANGED <<req, viewer, twin, conns, uiEnabled, clicks, statusArea, pages, i, images, failedPages, browser, sseClients, pdfDoc>>

SingleFinally ==
    /\ pc = "finally" /\ req.kind = "single"
    /\ browser' = CloseBrowser(browser)
    /\ IF browser = "open"
       THEN Apply(Op(World, [op |-> "close"]))
       ELSE UNCHANGED <<trace, res, written>>
    /\ pc' = "done"
    /\ UNCHANGED <<req, viewer, twin, conns, uiEnabled, clicks, statusArea, pages, i, images, failedPages, sseClients, pdfDoc, choices>>

(***************************************************************************)
(* The requests a behaviour starts from.                                   *)
(***************************************************************************)
PageNumbers == 0..MaxPage

RangeExprs ==
    {ToStr(a) : a \in PageNumbers}
    \cup {ToStr(a) \o <<"-">> \o ToStr(b) : a \in PageNumbers, b \in PageNumbers}
    \cup {<<"-">> \o ToStr(b) : b \in PageNumbers}
    \cup {ToStr(a) \o <<"-">> : a \in PageNumbers}
    \cup {ToStr(a) \o <<"-", "x">> : a \in PageNumbers}
    \cup {ToStr(0) \o <<"-">> \o ToStr(1) \o <<"-">> \o ToStr(MaxPage)}
    \cup {<<"x">>, <<"-">>, <<>>}

OutputFormats == {"zip", "pdf", "epub", ""}

BatchRequests ==
    {b \in [kind : {"batch"}, group_name : {"", "g"}, pdf : {"", "d"},
            page_range : RangeExprs, selector : {"", "img"},
            output_format : OutputFormats, clientId : {"", "c1"}] :
       Cardinality({f \in {"group_name", "pdf", "selector", "output_format", "clientId"} :
                      b[f] = ""}) + (IF b.page_range = <<>> THEN 1 ELSE 0) <= 1}

SingleRequests ==
    {b \in [kind : {"single"}, group_name : {"", "g"}, pdf : {"", "d"},
            page : PageNumbers, selector : {"", "img"}] :
       Cardinality({f \in {"group_name", "pdf", "selector"} : b[f] = ""})
         + (IF b.page = 0 THEN 1 ELSE 0) <= 1}

NoClients == [c \in {} |-> 0]

\* the connections behind a registry at the arrival of a request: one per
\* stream, open when the registry holds it
ConnsOf(registry, streams) ==
    [c \in DOMAIN streams |->
        [clientId |-> "c1",
         open |-> \E id \in DOMAIN registry : registry[id] = c,
         early |-> TRUE]]

\* no run to compare with
NoTwin == [run |-> 1, script |-> <<>>, first |-> <<>>]

Init ==
    /\ req \in BatchRequests \cup SingleRequests
    /\ pc = "start"
    /\ pages = <<>>
    /\ i = 0
    /\ images = <<>>
    /\ failedPages = <<>>
    /\ browser = "null"
    /\ res = FreshResponse
    /\ sseClients \in IF req.kind = "batch" /\ req.clientId # ""
                      THEN {NoClients, (req.clientId :> 1)}
                      ELSE {NoClients}
    /\ written = (1 :> <<>>)
    /\ pdfDoc = <<>>
    /\ choices = <<>>
    /\ viewer = {}
    /\ twin = NoTwin
    /\ conns = ConnsOf(sseClients, written)
    /\ uiEnabled = TRUE
    /\ clicks = <<>>
    /\ statusArea = NoStatus
    /\ trace = <<>>

Next ==
    \/ BatchValidate
    \/ BatchLaunch
    \/ BatchNewPage
    \/ BatchAttempt
    \/ BatchFetched
    \/ BatchDelay
    \/ BatchLoopExit
    \/ ZipFinalize
    \/ PdfCreate
    \/ PdfSave
    \/ BatchFinally
    \/ SingleValidate
    \/ SingleLaunch
    \/ SingleNewPage
    \/ SingleFetched
    \/ SingleFinally

Spec == Init /\ [][Next]_vars

\* Every await of a handler settles (the navigation and selector waits are
\* bounded by timeouts, the delay by its timer), so a handler that can take a
\* step eventually takes one.
FairSpec == Spec /\ WF_vars(Next)

(***************************************************************************)
(* Batch runs against a viewer that shows the same elements for every      *)
(* page: the specification under which the spread resolver is examined.    *)
(***************************************************************************)
ResolveRanges ==
    {ToStr(a) : a \in PageNumbers} \cup {ToStr(0) \o <<"-">> \o ToStr(MaxPage)}

ResolveRequests ==
    [kind : {"batch"}, group_name : {"g"}, pdf : {"d"}, page_range : ResolveRanges,
     selector : {"img"}, output_format : {"zip"}, clientId : {"c1"}]

InitResolve ==
    /\ req \in ResolveRequests
    /\ pc = "start"
    /\ pages = <<>>
    /\ i = 0
    /\ images = <<>>
    /\ failedPages = <<>>
    /\ browser = "null"
    /\ res = FreshResponse
    /\ sseClients = (req.clientId :> 1)
    /\ written = (1 :> <<>>)
    /\ pdfDoc = <<>>
    /\ choices = <<>>
    /\ viewer \in {{b} : b \in ViewerBehaviours}
    /\ twin = NoTwin
    /\ conns = ConnsOf(sseClients, written)
    /\ uiEnabled = TRUE
    /\ clicks = <<>>
    /\ statusArea = NoStatus
    /\ trace = <<>>

NextResolve ==
    \/ BatchValidate
    \/ BatchLaunch
    \/ BatchNewPage
    \/ BatchAttempt
    \/ BatchFetchedShown
    \/ BatchDelay
    \/ BatchLoopExit
    \/ ZipFinalize
    \/ BatchFinally

SpecResolve == InitResolve /\ [][NextResolve]_vars

(***************************************************************************)
(* Long batch runs against a viewer that behaves the same for every page:  *)
(* the specification under which the progress values are examined.         *)
(***************************************************************************)
ProgressRequests ==
    [kind : {"batch"}, group_name : {"g"}, pdf : {"d"},
     page_range : {ToStr(1) \o <<"-">> \o ToStr(n) : n \in 1..MaxRun},
     selector : {"img"}, output_format : {"zip"}, clientId : {"c1"}]

ProgressViewers ==
    {[goto |-> "ok", elems |-> <<SrcPng>>],
     [goto |-> "ok", elems |-> <<SrcHttp>>],
     [goto |-> "timeout", elems |-> <<>>]}

InitProgress ==
    /\ req \in ProgressRequests
    /\ pc = "start"
    /\ pages = <<>>
    /\ i = 0
    /\ images = <<>>
    /\ failedPages = <<>>
    /\ browser = "null"
    /\ res = FreshResponse
    /\ sseClients = (req.clientId :> 1)
    /\ written = (1 :> <<>>)
    /\ pdfDoc = <<>>
    /\ choices = <<>>
    /\ viewer \in {{b} : b \in ProgressViewers}
    /\ twin = NoTwin
    /\ conns = ConnsOf(sseClients, written)
    /\ uiEnabled = TRUE
    /\ clicks = <<>>
    /\ statusArea = NoStatus
    /\ trace = <<>>

SpecProgress == InitProgress /\ [][NextResolve]_vars

(***************************************************************************)
(* Single-page requests against a viewer whose one image has an arbitrary  *)
(* source beginning with "data:image": the specification under which       *)
(* parseDataURI is examined through what the handler answers.              *)
(***************************************************************************)
DecodeTokens == {"/", "png", "+", "xml", B64, "-"}

\* img.src values that pass the filter of getImageBase64; a serialised URL
\* holds no line break
DecodeSources ==
    {<<"data:", "image">> \o t : t \in SeqsUpTo(DecodeTokens, MaxSourceLen)}

DecodeRequest ==
    [kind |-> "single", group_name |-> "g", pdf |-> "d", page |-> 1, selector |-> "img"]

InitDecode ==
    /\ req = DecodeRequest
    /\ pc = "start"
    /\ pages = <<>>
    /\ i = 0
    /\ images = <<>>
    /\ failedPages = <<>>
    /\ browser = "null"
    /\ res = FreshResponse
    /\ sseClients = NoClients
    /\ written = (1 :> <<>>)
    /\ pdfDoc = <<>>
    /\ choices = <<>>
    /\ viewer \in {{[goto |-> "ok", elems |-> <<src>>]} : src \in DecodeSources}
    /\ twin = NoTwin
    /\ conns = ConnsOf(sseClients, written)
    /\ uiEnabled = TRUE
    /\ clicks = <<>>
    /\ statusArea = NoStatus
    /\ trace = <<>>

\* getImageBase64 of the single-page handler settles on a viewer confined to
\* some behaviours
SingleFetchedShown ==
    /\ pc = "fetching" /\ req.kind = "single"
    /\ viewer # {}
    /\ \E outcome \in {getImageBase64(b, req.page) : b \in viewer} :
         /\ Apply(SingleRespond(World, outcome))
         /\ choices' = Append(choices, [at |-> "fetch", outcome |-> outcome, sent |-> FALSE])
    /\ pc' = "finally"
    /\ UNCHANGED <<req, viewer, twin, conns, uiEnabled, clicks, statusArea, pages, i, images, failedPages, browser, sseClients, pdfDoc>>

NextDecode ==
    \/ SingleValidate
    \/ SingleLaunch
    \/ SingleNewPage
    \/ SingleFetchedShown
    \/ SingleFinally

SpecDecode == InitDecode /\ [][NextDecode]_vars

(***************************************************************************)
(* Reading the trace.                                                      *)
(***************************************************************************)
OpIdx(name) == {k \in 1..Len(trace) : trace[k].op = name}

EmitIdx(type) ==
    {k \in 1..Len(trace) : trace[k].op = "emit" /\ trace[k].ev.type = type}

RECURSIVE GotoPages(_)
GotoPages(t) ==
    IF t = <<>> THEN <<>>
    ELSE IF Head(t).op = "goto" THEN <<Head(t).page>> \o GotoPages(Tail(t))
    ELSE GotoPages(Tail(t))

PagesIn(list) == {list[k].page : k \in 1..Len(list)}

CountOf(list, page) == Cardinality({k \in 1..Len(list) : list[k].page = page})

IsBatch == req.kind = "batch"

Launched == OpIdx("launch") # {}

LoopEntered == IsBatch /\ OpIdx("newPage") # {}

\* the page loop has processed the whole range
LoopDone == LoopEntered /\ i = Len(pages)

\* operations that put the artifact together or write it to the response
ArtifactIdx ==
    OpIdx("pipe") \cup OpIdx("append")
    \cup {k \in OpIdx("respond") : trace[k].how \in {"send", "finalize"}}

ArtifactHeaders == {"Content-Disposition", "X-Failed-Pages", "Access-Control-Expose-Headers"}

(***************************************************************************)
(* The progress channel (GET /api/progress) and two runs of one request:   *)
(* a first run without a channel, then a second run of the same request    *)
(* whose awaits settle as they did in the first, while a client may open   *)
(* and close the channel at any moment.                                    *)
(***************************************************************************)
\* what a run leaves behind for the one who sent the request
Observed ==
    [attempted |-> GotoPages(trace), images |-> images, failedPages |-> failedPages,
     res |-> res, browser |-> browser]

\* the second run's awaits settle as those of the first run did
Scripted(step) ==
    /\ step
    /\ twin.run = 2 =>
         /\ Len(choices') <= Len(twin.script)
         /\ choices' = SubSeq(twin.script, 1, Len(choices'))

\* events the handler has emitted so far
Emitted(t) ==
    LET emits == SelectSeq(t, LAMBDA e : e.op = "emit")
    IN [k \in 1..Len(emits) |-> emits[k].ev]

\* app.get('/api/progress') with a clientId: sseClients.set(clientId, res)
SubscribeAs(clientId) ==
    /\ Len(written) < MaxConns
    /\ sseClients' = (clientId :> Len(written) + 1) @@ sseClients
    /\ written' = Append(written, <<>>)
    /\ conns' = Append(conns, [clientId |-> clientId, open |-> TRUE,
                               early |-> Emitted(trace) = <<>>])

\* CloseOf that leaves the registry as it is
CloseOfKeepsEntry(c) ==
    /\ c \in 1..Len(conns) /\ conns[c].open
    /\ conns' = [conns EXCEPT ![c].open = FALSE]
    /\ sseClients' = sseClients

\* req.on('close', () => sseClients.delete(clientId)) of connection c
CloseOf(c) ==
    /\ c \in 1..Len(conns) /\ conns[c].open
    /\ conns' = [conns EXCEPT ![c].open = FALSE]
    /\ sseClients' = [id \in DOMAIN sseClients \ {conns[c].clientId} |-> sseClients[id]]

\* the client of the request opens a progress connection
Subscribe ==
    /\ twin.run = 2
    /\ SubscribeAs(req.clientId)
    /\ UNCHANGED <<req, viewer, twin, uiEnabled, clicks, statusArea, pc, pages, i, images, failedPages,
                   browser, res, pdfDoc, choices, trace>>

\* the progress connection the registry holds for the request closes
Disconnect ==
    /\ twin.run = 2
    /\ req.clientId \in DOMAIN sseClients
    /\ CloseOf(sseClients[req.clientId])
    /\ UNCHANGED <<req, viewer, twin, uiEnabled, clicks, statusArea, pc, pages, i, images, failedPages,
                   browser, res, written, pdfDoc, choices, trace>>

\* the same request arrives again once the first run is over
SecondRequest ==
    /\ twin.run = 1 /\ pc = "done"
    /\ twin' = [run |-> 2, script |-> choices, first |-> <<Observed>>]
    /\ pc' = "start"
    /\ pages' = <<>>
    /\ i' = 0
    /\ images' = <<>>
    /\ failedPages' = <<>>
    /\ browser' = "null"
    /\ res' = FreshResponse
    /\ pdfDoc' = <<>>
    /\ choices' = <<>>
    /\ trace' = <<>>
    /\ UNCHANGED <<req, viewer, sseClients, written, conns, uiEnabled, clicks, statusArea>>

ChanRequests ==
    [kind : {"batch"}, group_name : {"g"}, pdf : {"d"},
     page_range : {ToStr(1), ToStr(0) \o <<"-">> \o ToStr(1)},
     selector : {"img"}, output_format : {"zip", "pdf"}, clientId : {"c1"}]

ChanViewers ==
    {[goto |-> "ok", elems |-> <<SrcPng>>],
     [goto |-> "ok", elems |-> <<SrcHttp>>],
     [goto |-> "timeout", elems |-> <<>>],
     [goto |-> "error", elems |-> <<>>]}

InitChan ==
    /\ req \in ChanRequests
    /\ pc = "start"
    /\ pages = <<>>
    /\ i = 0
    /\ images = <<>>
    /\ failedPages = <<>>
    /\ browser = "null"
    /\ res = FreshResponse
    /\ sseClients = NoClients
    /\ written = <<>>
    /\ pdfDoc = <<>>
    /\ choices = <<>>
    /\ viewer = ChanViewers
    /\ twin = NoTwin
    /\ conns = ConnsOf(sseClients, written)
    /\ uiEnabled = TRUE
    /\ clicks = <<>>
    /\ statusArea = NoStatus
    /\ trace = <<>>

\* a step of the batch handler in either run
HandlerStep ==
    \/ Scripted(BatchValidate)
    \/ Scripted(BatchLaunch)
    \/ Scripted(BatchNewPage)
    \/ Scripted(BatchAttempt)
    \/ Scripted(BatchFetchedShown)
    \/ Scripted(BatchDelay)
    \/ Scripted(BatchLoopExit)
    \/ Scripted(ZipFinalize)
    \/ Scripted(PdfCreate)
    \/ Scripted(PdfSave)
    \/ Scripted(BatchFinally)

NextChan ==
    \/ HandlerStep
    \/ Subscribe
    \/ Disconnect
    \/ SecondRequest

SpecChan == InitChan /\ [][NextChan]_vars

(***************************************************************************)
(* The progress channel under arbitrary subscribers: while one batch        *)
(* request is handled, connections are opened on GET /api/progress under    *)
(* any channel id and closed in any order.                                  *)
(***************************************************************************)
ChannelIds == {"c1", "c2"}

\* GET /api/progress?clientId=id arrives
ProgressSubscribe ==
    /\ \E id \in ChannelIds : SubscribeAs(id)
    /\ UNCHANGED <<req, viewer, twin, uiEnabled, clicks, statusArea, pc, pages, i, images, failedPages,
                   browser, res, pdfDoc, choices, trace>>

\* the 'close' event of one of the open connections
ProgressClose ==
    /\ \E c \in 1..Len(conns) : CloseOf(c)
    /\ UNCHANGED <<req, viewer, twin, uiEnabled, clicks, statusArea, pc, pages, i, images, failedPages,
                   browser, res, written, pdfDoc, choices, trace>>

SseRequests == {r \in ChanRequests : r.page_range = ToStr(1)}

InitSse ==
    /\ req \in SseRequests
    /\ pc = "start"
    /\ pages = <<>>
    /\ i = 0
    /\ images = <<>>
    /\ failedPages = <<>>
    /\ browser = "null"
    /\ res = FreshResponse
    /\ sseClients = NoClients
    /\ written = <<>>
    /\ pdfDoc = <<>>
    /\ choices = <<>>
    /\ viewer = ChanViewers
    /\ twin = NoTwin
    /\ conns = <<>>
    /\ uiEnabled = TRUE
    /\ clicks = <<>>
    /\ statusArea = NoStatus
    /\ trace = <<>>

NextSse ==
    \/ HandlerStep
    \/ ProgressSubscribe
    \/ ProgressClose

SpecSse == InitSse /\ [][NextSse]_vars

(***************************************************************************)
(* The page (client script) and the server together: batch clicks, their    *)
(* EventSource and fetch, and the server handling one batch request at a    *)
(* time.  A click starts a request only when the server is not in the       *)
(* middle of a run.                                                         *)
(***************************************************************************)
\* clientId: `client-${Date.now()}-${Math.random()...}`, a fresh id per click
ClickIds == <<"c1", "c2", "c3">>

\* new FormData(form) at the click
ClickForms ==
    [group_name : {"", "g"}, pdf : {"d"}, page_range : {ToStr(1)},
     selector : {"", "img"}, output_format : {"zip", "pdf"}]

\* the viewer as the page's requests find it
ClientViewers ==
    {[goto |-> "ok", elems |-> <<SrcPng>>],
     [goto |-> "timeout", elems |-> <<>>]}

NoRequest == [kind |-> "none", clientId |-> ""]

InitClient ==
    /\ req = NoRequest
    /\ pc = "idle"
    /\ pages = <<>>
    /\ i = 0
    /\ images = <<>>
    /\ failedPages = <<>>
    /\ browser = "null"
    /\ res = FreshResponse
    /\ sseClients = NoClients
    /\ written = <<>>
    /\ pdfDoc = <<>>
    /\ choices = <<>>
    /\ viewer = ClientViewers
    /\ twin = NoTwin
    /\ conns = <<>>
    /\ uiEnabled = TRUE
    /\ clicks = <<>>
    /\ statusArea = NoStatus
    /\ trace = <<>>

\* closeConnection(): eventSource.close() unless closed already; the caller
\* also gets setUIEnabled(true)
closeConnection(cs, k) == [cs EXCEPT ![k].es = "closed"]

\* the answer to the request of the latest click, kept for its fetch when the
\* server turns to the next request
StoreAnswer(cs) ==
    IF cs # <<>> /\ cs[Len(cs)].http = "pending" /\ res.finished
    THEN [cs EXCEPT ![Len(cs)].status = res.statusCode,
                    ![Len(cs)].headers = res.headers,
                    ![Len(cs)].body = res.body]
    ELSE cs

\* response.status as the fetch of click k sees it, 0 while there is no answer
StatusFor(k) ==
    IF k = Len(clicks) /\ res.finished THEN res.statusCode ELSE clicks[k].status

\* response.statusText: the reason phrase the server's HTTP layer sends with
\* the status code
statusText(status) ==
    CASE status = 200 -> "OK"
      [] status = 400 -> "Bad Request"
      [] status = 404 -> "Not Found"
      [] status = 500 -> "Internal Server Error"
      [] OTHER -> ""

\* the Response object the fetch of click k resolves with
ResponseFor(k) ==
    LET latest == k = Len(clicks) /\ res.finished
    IN [ok |-> StatusFor(k) \in 200..299,
        status |-> StatusFor(k),
        statusText |-> statusText(StatusFor(k)),
        headers |-> IF latest THEN res.headers ELSE clicks[k].headers,
        body |-> IF latest THEN res.body ELSE clicks[k].body]

\* await response.json(): the body parses when the server serialised it with
\* res.json, and not when it is the bytes of an archive or a document
ParsesAsJson(response) ==
    /\ "Content-Type" \in DOMAIN response.headers
    /\ response.headers["Content-Type"] = "application/json"
    /\ Len(response.body) = 1

\* the try block of handleFileResponse: it throws in every case, the Error
\* made from errorData.error or the SyntaxError of response.json()
ErrorOfBody(response) ==
    IF ParsesAsJson(response)
    THEN LET errorData == response.body[1]
         IN [name |-> "Error",
             message |-> IF errorData.error # ""
                         THEN <<errorData.error>>
                         ELSE <<"An unknown error occurred.">>]
    ELSE [name |-> "SyntaxError", message |-> <<"Unexpected token">>]

\* handleFileResponse(response): what it throws, if it throws.  The catch
\* clause receives whatever the try block threw (jsonError) and throws an
\* Error of its own, made from the status line alone.
handleFileResponse(response) ==
    IF ~response.ok
    THEN LET jsonError == ErrorOfBody(response)
         IN [threw |-> TRUE,
             message |-> <<"Server returned an error: ">> \o ToStr(response.status)
                            \o <<" ", response.statusText>>]
    ELSE [threw |-> FALSE, message |-> <<>>]

\* the status text of a 'complete' event: a warning line per failed page
RECURSIVE FailedLines(_)
FailedLines(fp) ==
    IF fp = <<>> THEN <<>>
    ELSE <<"\n- Page ">> \o ToStr(Head(fp).page) \o <<": ", Head(fp).reason>>
            \o FailedLines(Tail(fp))

CompleteStatus(progressData) ==
    <<"Batch download processing finished!">>
       \o (IF Len(progressData.failedPages) > 0
           THEN <<"\nWarning: Could not download the following pages:">>
                   \o FailedLines(progressData.failedPages)
           ELSE <<>>)

\* batchButton 'click' listener up to the await of fetch
BatchClick ==
    /\ uiEnabled
    /\ Len(clicks) < MaxClicks
    /\ pc \in {"idle", "done"}
    /\ \E form \in ClickForms :
         IF form.group_name = "" \/ form.pdf = "" \/ form.page_range = <<>>
         THEN /\ statusArea' = updateStatus(<<"Please fill in all required fields.">>, TRUE)
              /\ UNCHANGED <<req, pc, pages, i, images, failedPages, browser, res,
                             sseClients, written, pdfDoc, choices, viewer, twin, conns,
                             uiEnabled, clicks, trace>>
         ELSE /\ clicks' = Append(StoreAnswer(clicks),
                                  [clientId |-> ClickIds[Len(clicks) + 1],
                                   es |-> "connecting", conn |-> 0, read |-> 0,
                                   http |-> "pending", status |-> 0,
                                   headers |-> NoHeaders, body |-> <<>>,
                                   error |-> <<>>])
              /\ statusArea' = updateStatus(<<"Starting batch download...">>, FALSE)
              /\ uiEnabled' = FALSE
              /\ req' = [kind |-> "batch", group_name |-> form.group_name,
                         pdf |-> form.pdf, page_range |-> form.page_range,
                         selector |-> form.selector,
                         output_format |-> form.output_format,
                         clientId |-> ClickIds[Len(clicks) + 1]]
              /\ pc' = "start"
              /\ pages' = <<>>
              /\ i' = 0
              /\ images' = <<>>
              /\ failedPages' = <<>>
              /\ browser' = "null"
              /\ res' = FreshResponse
              /\ pdfDoc' = <<>>
              /\ choices' = <<>>
              /\ trace' = <<>>
              /\ UNCHANGED <<viewer, twin, sseClients, written, conns>>

\* the GET /api/progress of a click's EventSource reaches the server
SseArrive ==
    /\ \E k \in 1..Len(clicks) :
         /\ clicks[k].es = "connecting" /\ clicks[k].conn = 0
         /\ SubscribeAs(clicks[k].clientId)
         /\ clicks' = [clicks EXCEPT ![k].conn = Len(written) + 1, ![k].es = "open"]
    /\ UNCHANGED <<req, viewer, twin, uiEnabled, statusArea, pc, pages, i, images,
                   failedPages, browser, res, pdfDoc, choices, trace>>

\* eventSource.onmessage with the next event written to the click's connection
SseMessage ==
    /\ \E k \in 1..Len(clicks) :
         /\ clicks[k].es = "open"
         /\ clicks[k].read < Len(written[clicks[k].conn])
         /\ LET progressData == written[clicks[k].conn][clicks[k].read + 1]
                heard == [clicks EXCEPT ![k].read = @ + 1]
            IN CASE progressData.type = "complete" ->
                      /\ statusArea' = updateStatus(CompleteStatus(progressData), FALSE)
                      /\ clicks' = closeConnection(heard, k)
                      /\ uiEnabled' = TRUE
                 [] progressData.type = "error" ->
                      /\ statusArea' = updateStatus(<<"An error occurred on the server: ",
                                                      progressData.message>>, TRUE)
                      /\ clicks' = closeConnection(heard, k)
                      /\ uiEnabled' = TRUE
                 [] OTHER ->
                      /\ clicks' = heard
                      /\ UNCHANGED <<uiEnabled, statusArea>>
    /\ UNCHANGED <<req, viewer, twin, conns, pc, pages, i, images, failedPages, browser,
                   res, sseClients, written, pdfDoc, choices, trace>>

\* eventSource.onerror: the progress connection failed
SseError ==
    /\ \E k \in 1..Len(clicks) :
         /\ clicks[k].es \in {"connecting", "open"}
         /\ clicks' = closeConnection(clicks, k)
    /\ statusArea' = updateStatus(<<"Connection to server progress updates failed. ",
                                    "The download may still be running.">>, TRUE)
    /\ uiEnabled' = TRUE
    /\ UNCHANGED <<req, viewer, twin, conns, pc, pages, i, images, failedPages, browser,
                   res, sseClients, written, pdfDoc, choices, trace>>

\* the server learns that an EventSource the page closed is gone
SseClosed ==
    /\ \E k \in 1..Len(clicks) :
         /\ clicks[k].es = "closed" /\ clicks[k].conn # 0
         /\ CloseOf(clicks[k].conn)
    /\ UNCHANGED <<req, viewer, twin, uiEnabled, clicks, statusArea, pc, pages, i, images,
                   failedPages, browser, res, written, pdfDoc, choices, trace>>

\* await fetch(...) and await handleFileResponse(response) with the server's
\* answer; what handleFileResponse throws lands in the catch block:
\* updateStatus(`Error: ${error.message}`, true) and closeConnection()
HttpSettle ==
    /\ \E k \in 1..Len(clicks) :
         /\ clicks[k].http = "pending"
         /\ StatusFor(k) # 0
         /\ LET response == ResponseFor(k)
                error == handleFileResponse(response)
                settled == [clicks EXCEPT ![k].http = "settled",
                                          ![k].status = response.status,
                                          ![k].headers = response.headers,
                                          ![k].body = response.body,
                                          ![k].error = error.message]
            IN IF error.threw
               THEN /\ statusArea' = updateStatus(<<"Error: ">> \o error.message, TRUE)
                    /\ clicks' = closeConnection(settled, k)
                    /\ uiEnabled' = TRUE
               ELSE /\ clicks' = settled
                    /\ UNCHANGED <<uiEnabled, statusArea>>
    /\ UNCHANGED <<req, viewer, twin, conns, pc, pages, i, images, failedPages, browser,
                   res, sseClients, written, pdfDoc, choices, trace>>

\* fetch or response.blob() rejects: the catch block of the click listener
FetchFails ==
    /\ \E k \in 1..Len(clicks) :
         /\ clicks[k].http = "pending"
         /\ clicks' = closeConnection([clicks EXCEPT ![k].http = "settled",
                                                     ![k].error = <<"Failed to fetch">>], k)
    /\ statusArea' = updateStatus(<<"Error: ", "Failed to fetch">>, TRUE)
    /\ uiEnabled' = TRUE
    /\ UNCHANGED <<req, viewer, twin, conns, pc, pages, i, images, failedPages, browser,
                   res, sseClients, written, pdfDoc, choices, trace>>

NextClient ==
    \/ BatchClick
    \/ SseArrive
    \/ SseMessage
    \/ SseError
    \/ SseClosed
    \/ HttpSettle
    \/ FetchFails
    \/ HandlerStep

SpecClient == InitClient /\ [][NextClient]_vars

\* The server handles what has arrived, requests and events in flight are
\* delivered, and the page's callbacks run; connections need not fail and
\* the user need not click.
FairClient ==
    /\ SpecClient
    /\ WF_vars(HandlerStep)
    /\ WF_vars(SseArrive)
    /\ WF_vars(SseMessage)
    /\ WF_vars(SseClosed)
    /\ WF_vars(HttpSettle)

(***************************************************************************)
(* C1: after the page loop has processed the whole range, every page of    *)
(* the range is in exactly one of the fetched list and the failed list,    *)
(* once, so the two lengths add up to the length of the range.             *)
(***************************************************************************)
C1_OneOutcomePerPage ==
    LoopDone =>
        /\ Len(images) + Len(failedPages) = Len(pages)
        /\ \A k \in 1..Len(pages) :
             CountOf(images, pages[k]) + CountOf(failedPages, pages[k]) = 1

\* a finished loop holding a fetched page, a 'not found' page and a page that threw
C1_Witness ==
    /\ LoopDone
    /\ Len(images) >= 1
    /\ \E k \in 1..Len(failedPages) :
         failedPages[k].reason = "Image source was empty or not found."
    /\ \E k \in 1..Len(failedPages) :
         failedPages[k].reason = "Timeout waiting for page/selector."

(***************************************************************************)
(* C2: once the page loop of a batch run has been entered, the pages       *)
(* navigated to are a prefix of the range at every moment and the whole    *)
(* range, each page once and in ascending order, when the loop is over,    *)
(* whatever the outcomes of the pages.                                     *)
(***************************************************************************)
C2_EveryPageAttemptedInOrder ==
    LoopEntered =>
        \A g \in {GotoPages(trace)} :
           /\ Len(g) <= Len(pages)
           /\ g = SubSeq(pages, 1, Len(g))
           /\ \A k \in 1..(Len(g) - 1) : g[k] < g[k + 1]
           /\ pc \notin {"loop", "fetching", "delay"} => g = pages

\* a run over three pages whose first page threw and whose last page was attempted
C2_Witness ==
    /\ LoopEntered
    /\ pc = "done"
    /\ Len(pages) >= 3
    /\ GotoPages(trace) = pages
    /\ \E k \in 1..Len(failedPages) :
         failedPages[k].page = pages[1] /\ failedPages[k].reason = "net::ERR_FAILED"

(***************************************************************************)
(* C3 (as claimed): a validated batch request that fetched at least one    *)
(* page and met no exception has, when the handler is done, been answered  *)
(* with a 200 artifact response.                                           *)
(***************************************************************************)
C3_ArtifactWhenAnyFetched ==
    (IsBatch /\ pc = "done" /\ LoopDone /\ Len(images) >= 1 /\ EmitIdx("error") = {})
        => /\ res.finished
           /\ res.statusCode = 200
           /\ "Content-Type" \in DOMAIN res.headers

(***************************************************************************)
(* C4 (as claimed): a batch run that passed validation has emitted a       *)
(* complete or an error event by the time its handler is done.             *)
(***************************************************************************)
C4_TerminalEventEmitted ==
    (IsBatch /\ pc = "done" /\ Len(pages) > 0)
        => EmitIdx("complete") \cup EmitIdx("error") # {}

(***************************************************************************)
(* C5: when every page of the range failed, the run answers 404 with an    *)
(* {error} body and produces no artifact: no artifact header is set, no    *)
(* failed-pages header, nothing is appended, piped or sent.                *)
(***************************************************************************)
C5_NoArtifactWhenAllFailed ==
    (LoopDone /\ Len(images) = 0 /\ pc \in {"finally", "done"})
        => /\ res.statusCode = 404
           /\ res.finished
           /\ res.body = <<[error |-> "No images could be downloaded."]>>
           /\ DOMAIN res.headers = {"Content-Type"}
           /\ res.headers["Content-Type"] = "application/json"
           /\ ArtifactIdx = {}
           /\ \A k \in OpIdx("setHeader") : trace[k].name \notin ArtifactHeaders

\* the handler is done after a loop over several pages that all failed
C5_Witness ==
    /\ LoopDone
    /\ pc = "done"
    /\ Len(images) = 0
    /\ Len(failedPages) >= 2
    /\ res.statusCode = 404

(***************************************************************************)
(* C6 (as claimed): the complete event is emitted before any archive       *)
(* entry is appended or any artifact byte is written to the response.      *)
(***************************************************************************)
C6_CompleteBeforeAssembly ==
    \A c \in EmitIdx("complete") : \A a \in ArtifactIdx : c < a

(***************************************************************************)
(* C6 (amended): the complete event carries the full failed-pages list and *)
(* is emitted after output assembly: every append, the finalize of the     *)
(* archive and the send of the document precede it, and nothing is written *)
(* to the response after it.                                               *)
(***************************************************************************)
C6_CompleteAfterAssembly ==
    \A c \in EmitIdx("complete") :
        /\ trace[c].ev.failedPages = failedPages
        /\ \A a \in ArtifactIdx : a < c
        /\ \A k \in (c + 1)..Len(trace) : trace[k].op \in {"close"}
        /\ req.output_format \in {"zip", "pdf"} => res.finished

\* a zip run with a failed page has appended an entry and then emitted complete
C6_Witness ==
    /\ EmitIdx("complete") # {}
    /\ OpIdx("append") # {}
    /\ Len(failedPages) >= 1
    /\ req.output_format = "zip"

(***************************************************************************)
(* C7 (as claimed): the browser session is released before the response    *)
(* of the run is sent.                                                     *)
(***************************************************************************)
C7_ReleasedBeforeResponse ==
    (IsBatch /\ Launched) =>
        \A r \in OpIdx("respond") : \E c \in OpIdx("close") : c < r

(***************************************************************************)
(* C7 (amended): a batch run that launched a browser session has released  *)
(* it when its handler is done, on every exit path, and the release comes  *)
(* after the response of the run, never before it.                         *)
(***************************************************************************)
C7_ReleasedAfterResponse ==
    (IsBatch /\ Launched) =>
        /\ pc = "done" => browser = "closed"
        /\ \A c \in OpIdx("close") : \A r \in OpIdx("respond") : r < c
        /\ browser = "closed" => OpIdx("close") # {}

\* a run that answered 404 and then closed its browser
C7_Witness ==
    /\ IsBatch
    /\ pc = "done"
    /\ browser = "closed"
    /\ res.statusCode = 404
    /\ OpIdx("close") # {}

(***************************************************************************)
(* C8: a launched browser session, of a batch or a single-page request, is *)
(* closed at most once at any time and exactly once in every state in      *)
(* which the handler can take no further step; no session is closed that   *)
(* was not launched.                                                       *)
(***************************************************************************)
C8_SessionClosedExactlyOnce ==
    /\ Cardinality(OpIdx("close")) <= 1
    /\ OpIdx("close") # {} => Launched
    /\ (browser = "closed") = (OpIdx("close") # {})
    /\ (Launched /\ ~ENABLED Next) =>
          /\ browser = "closed"
          /\ Cardinality(OpIdx("close")) = 1

\* the same as a progress property under FairSpec: a launched session is
\* eventually closed
SessionEventuallyClosed == Launched ~> (browser = "closed")

\* a batch run aborted by newPage has closed the session it launched
C8_Witness ==
    /\ IsBatch
    /\ Launched
    /\ OpIdx("newPage") = {}
    /\ pc = "done"
    /\ browser = "closed"

(***************************************************************************)
(* C9 (as claimed): between the navigations of two consecutive pages the   *)
(* pacing delay is awaited, whatever the outcome of the earlier page.      *)
(***************************************************************************)
C9_DelayBetweenAttempts ==
    IsBatch =>
        \A a \in OpIdx("goto") : \A b \in OpIdx("goto") :
            a < b => \E d \in OpIdx("delay") : a < d /\ d < b

(***************************************************************************)
(* C10: a batch request with a missing field or with a range expression    *)
(* that parses to the empty range is answered 400 by the first step of the *)
(* handler: no browser is launched and no progress event is emitted.       *)
(***************************************************************************)
AnyBatchFieldMissing ==
    \/ \E f \in {"group_name", "pdf", "selector", "output_format", "clientId"} : req[f] = ""
    \/ req.page_range = <<>>

C10_InvalidRequestAnswered400 ==
    (IsBatch /\ pc # "start"
       /\ (AnyBatchFieldMissing \/ parsePageRange(req.page_range) = <<>>))
        => /\ pc = "done"
           /\ res.statusCode = 400
           /\ res.finished
           /\ browser = "null"
           /\ OpIdx("launch") = {}
           /\ OpIdx("emit") = {}

\* the request with the range "2-1" has been answered
C10_Witness ==
    /\ IsBatch
    /\ req.page_range = <<"2", "-", "1">>
    /\ ~AnyBatchFieldMissing
    /\ pc = "done"
    /\ res.statusCode = 400

\* what an entry of the trace is to the page loop
LoopKind(e) ==
    IF e.op = "goto" THEN "fetch"
    ELSE IF e.op # "emit" THEN "other"
    ELSE IF e.ev.type = "progress" THEN "progress"
    ELSE IF e.ev.type # "log" THEN "other"
    ELSE IF e.ev.message[1] = "Fetching page" THEN "attempt"
    ELSE IF e.ev.message[1] \in {"Successfully fetched page", "Failed to fetch page"}
    THEN "result"
    ELSE "other"

\* the page an entry of the page loop is about (0 for a progress event)
LoopPage(e) ==
    IF e.op = "goto" THEN e.page
    ELSE IF e.ev.type = "log" THEN e.ev.message[2]
    ELSE 0

IsLoopEvent(e) == LoopKind(e) # "other"

\* the entries of the trace that belong to the page loop, in order
LoopEvents(t) == SelectSeq(t, IsLoopEvent)

PageCycle == <<"attempt", "fetch", "result", "progress">>

(***************************************************************************)
(* C11: in a batch run the events of the page loop come page by page in    *)
(* the order attempt log, fetch, one result log, one progress event: the   *)
(* j-th loop event is the ((j-1) mod 4)-th step of the cycle and is about  *)
(* the ((j-1) div 4)-th page of the range, so the fetch of a page never    *)
(* starts before the progress event of the page before it; a fetch is in   *)
(* flight exactly between a fetch entry and its result log, and a finished *)
(* loop has emitted the four events of every page.                         *)
(***************************************************************************)
C11_PerPageEventOrder ==
    IsBatch =>
        \A ev \in {LoopEvents(trace)} :
           /\ Len(ev) <= 4 * Len(pages)
           /\ \A j \in 1..Len(ev) :
                /\ LoopKind(ev[j]) = PageCycle[((j - 1) % 4) + 1]
                /\ LoopKind(ev[j]) # "progress" =>
                     LoopPage(ev[j]) = pages[((j - 1) \div 4) + 1]
           /\ (pc = "fetching") <=> (Len(ev) % 4 = 2)
           /\ (pc = "loop") => (Len(ev) = 4 * i)
           /\ LoopDone => Len(ev) = 4 * Len(pages)

\* a finished run over several pages of which one was fetched and one threw
C11_Witness ==
    /\ LoopDone /\ pc = "done"
    /\ Len(pages) >= 2
    /\ Len(images) >= 1
    /\ \E k \in 1..Len(choices) :
         choices[k].at = "fetch" /\ choices[k].outcome.tag = "throw"

\* the awaits of the browser setup that threw
SetupThrown ==
    {k \in 1..Len(choices) : /\ choices[k].at \in {"launch", "newPage"}
                             /\ choices[k].outcome.tag = "throw"}

(***************************************************************************)
(* C12: when launch or newPage of a batch run has thrown, exactly one      *)
(* error event carrying the exception's message has been emitted and it    *)
(* precedes the one response, which is the 500 error response; no page was *)
(* navigated to or announced, no complete event was emitted, nothing of    *)
(* the artifact was written and no artifact header was set.                *)
(***************************************************************************)
C12_SetupFailureAborts ==
    (IsBatch /\ SetupThrown # {}) =>
        /\ \A k \in SetupThrown :
             /\ Cardinality(EmitIdx("error")) = 1
             /\ Cardinality(OpIdx("respond")) = 1
             /\ \A e \in EmitIdx("error") :
                  /\ trace[e].ev.message = choices[k].outcome.message
                  /\ \A r \in OpIdx("respond") :
                       /\ e < r
                       /\ trace[r].how = "json" /\ trace[r].status = 500
             /\ res.statusCode = 500
             /\ res.body = <<[error |-> choices[k].outcome.message]>>
        /\ GotoPages(trace) = <<>>
        /\ LoopEvents(trace) = <<>>
        /\ EmitIdx("complete") = {}
        /\ ArtifactIdx = {}
        /\ DOMAIN res.headers \cap ArtifactHeaders = {}
        /\ images = <<>> /\ failedPages = <<>>

\* a finished batch run whose browser was launched and whose newPage threw
C12_Witness ==
    /\ IsBatch /\ pc = "done"
    /\ Launched
    /\ \E k \in SetupThrown : choices[k].at = "newPage"
    /\ res.finished

IsFetch(c) == c.at = "fetch"

\* how the fetch of each page attempted so far settled, in the order of the attempts
FetchOutcomes(c) ==
    LET fetches == SelectSeq(c, IsFetch)
    IN [k \in 1..Len(fetches) |-> fetches[k].outcome]

\* the failed list that classifying the outcomes o of the pages ps gives, with the
\* given reason texts for a timeout and for a 'not found' result
RECURSIVE Classified(_, _, _, _)
Classified(o, ps, timeoutText, notFoundText) ==
    IF o = <<>> THEN <<>>
    ELSE LET rest == Classified(Tail(o), Tail(ps), timeoutText, notFoundText)
             out == Head(o)
         IN IF out.tag = "ok" THEN rest
            ELSE IF out.tag = "null"
            THEN <<[page |-> Head(ps), reason |-> notFoundText]>> \o rest
            ELSE IF out.name = "TimeoutError"
            THEN <<[page |-> Head(ps), reason |-> timeoutText]>> \o rest
            ELSE <<[page |-> Head(ps), reason |-> out.message]>> \o rest

(***************************************************************************)
(* C14 (as claimed): the failed list of a batch run is, page by page, the  *)
(* classification of the pages' outcomes with the reasons "Timeout waiting *)
(* for page/selector" and "Image source was empty or not found".           *)
(***************************************************************************)
C14_ReasonsAsQuoted ==
    LoopEntered =>
        failedPages = Classified(FetchOutcomes(choices), pages,
                                 "Timeout waiting for page/selector",
                                 "Image source was empty or not found")

(***************************************************************************)
(* C14 (amended): the failed list of a batch run holds, in the order of    *)
(* the attempts, exactly one record for every page whose fetch did not     *)
(* return an image, carrying the page number and the reason "Timeout       *)
(* waiting for page/selector." for a navigation or selector timeout,       *)
(* "Image source was empty or not found." for a 'not found' result of the  *)
(* resolver and the error's own message for any other error, the two fixed *)
(* texts ending in a full stop.                                            *)
(***************************************************************************)
C14_FailureReasonsClassified ==
    LoopEntered =>
        /\ failedPages = Classified(FetchOutcomes(choices), pages,
                                    "Timeout waiting for page/selector.",
                                    "Image source was empty or not found.")
        /\ \A k \in 1..Len(failedPages) : CountOf(failedPages, failedPages[k].page) = 1

\* a finished loop with a page that timed out, a page not found and a page whose
\* navigation failed otherwise
C14_Witness ==
    /\ LoopDone
    /\ \E a, b, c \in 1..Len(failedPages) :
         /\ failedPages[a].reason = "Timeout waiting for page/selector."
         /\ failedPages[b].reason = "Image source was empty or not found."
         /\ failedPages[c].reason = "net::ERR_FAILED"
    /\ \E k \in 1..Len(choices) :
         /\ choices[k].at = "fetch"
         /\ choices[k].outcome.name = "TimeoutError"
    /\ \E k \in 1..Len(choices) :
         /\ choices[k].at = "fetch"
         /\ choices[k].outcome.tag = "null"

\* the positions of the candidate sources among the elements the viewer shows
CandidateIdx(elems) ==
    {k \in 1..Len(elems) : elems[k] # <<>> /\ StartsWithDataImage(elems[k])}

\* the n-th candidate source, counted from 0 as the code's indices are
Candidate(elems, n) ==
    LET at == CHOOSE k \in CandidateIdx(elems) :
                  Cardinality({m \in CandidateIdx(elems) : m < k}) = n
    IN elems[at]

(***************************************************************************)
(* C15: when the viewer's page loaded and holds elements matching the      *)
(* selector, the fetch of a page settles by the number of candidate        *)
(* sources (those starting with data:image): one candidate is returned     *)
(* whatever the page number, of two candidates the one at index 0 is       *)
(* returned for an even page number and the one at index 1 for an odd one, *)
(* and with no or more than two candidates nothing is returned; the batch  *)
(* loop then records the page in the failed list with the 'not found'      *)
(* reason and, the browser having been set up, emits no error event,       *)
(* answers no 500 and goes on to attempt every page of the range.          *)
(***************************************************************************)
C15_SpreadResolution ==
    \A b \in viewer :
      (IsBatch /\ viewer = {b} /\ b.goto = "ok" /\ b.elems # <<>>) =>
        LET elems == b.elems
            n == Cardinality(CandidateIdx(elems))
            o == FetchOutcomes(choices)
        IN /\ \A j \in 1..Len(o) :
                /\ n = 1 => o[j] = Returned(Candidate(elems, 0))
                /\ n = 2 /\ pages[j] % 2 = 0 => o[j] = Returned(Candidate(elems, 0))
                /\ n = 2 /\ pages[j] % 2 = 1 => o[j] = Returned(Candidate(elems, 1))
                /\ n \notin {1, 2} =>
                     /\ o[j] = ReturnedNull
                     /\ failedPages[j] =
                          [page |-> pages[j],
                           reason |-> "Image source was empty or not found."]
           /\ (n \notin {1, 2} /\ SetupThrown = {}) =>
                /\ Len(failedPages) = Len(o)
                /\ EmitIdx("error") = {}
                /\ \A r \in OpIdx("respond") : trace[r].status # 500
                /\ pc \in {"finally", "done"} => GotoPages(trace) = pages

\* a finished run over several pages against a viewer showing a two-image spread
C15_Witness ==
    /\ IsBatch /\ pc = "done"
    /\ Len(pages) >= 2
    /\ \E b \in viewer :
         /\ viewer = {b}
         /\ Cardinality(CandidateIdx(b.elems)) = 2
         /\ Len(b.elems) > 2
    /\ Len(images) = Len(pages)
    /\ images[1].base64Image # images[2].base64Image

\* the values of the progress events emitted so far, in order
RECURSIVE ProgressValues(_)
ProgressValues(t) ==
    IF t = <<>> THEN <<>>
    ELSE IF Head(t).op = "emit" /\ Head(t).ev.type = "progress"
         THEN <<Head(t).ev.value>> \o ProgressValues(Tail(t))
         ELSE ProgressValues(Tail(t))

\* v is the integer nearest to 100 * k / n, halves counted upwards
IsRounded(v, k, n) == 2 * n * v - n <= 200 * k /\ 200 * k < 2 * n * v + n

(***************************************************************************)
(* C16 (as claimed): the k-th progress event of a batch run over n pages   *)
(* carries round(k / n * 100), the integer nearest to the quotient.        *)
(***************************************************************************)
C16_ProgressIsRoundedQuotient ==
    IsBatch =>
        LET v == ProgressValues(trace)
        IN \A k \in 1..Len(v) : IsRounded(v[k], k, Len(pages))

\* what holds of the progress values nevertheless: one per processed page, each
\* within 0..100 and at most one away from the rounded quotient, never decreasing,
\* and 100 for the last page
C16_ProgressShape ==
    IsBatch =>
        LET v == ProgressValues(trace)
        IN /\ Len(v) = Len(FetchOutcomes(choices)) - (IF pc = "delay" THEN 1 ELSE 0)
           /\ \A k \in 1..Len(v) :
                /\ v[k] \in 0..100
                /\ IsRounded(v[k], k, Len(pages)) \/ IsRounded(v[k] + 1, k, Len(pages))
                /\ k > 1 => v[k - 1] <= v[k]
           /\ LoopDone => (Len(v) = Len(pages) /\ v[Len(v)] = 100)

\* the batch handler has applied the page-range parser to the request's expression
Parsed == IsBatch /\ pc # "start" /\ ~BatchMissing(req)

AllDigits(s) == s # <<>> /\ \A k \in 1..Len(s) : s[k] \in DigitChars

\* the range an expression denotes: "n" is [n], "a-b" with a <= b is [a..b], and
\* everything else, a > b and bounds that are no integers included, is empty
Denoted(s) ==
    IF AllDigits(s) THEN <<DecimalValue(s)>>
    ELSE IF \E p \in 1..Len(s) : /\ s[p] = "-"
                                 /\ AllDigits(SubSeq(s, 1, p - 1))
                                 /\ AllDigits(SubSeq(s, p + 1, Len(s)))
    THEN LET p == CHOOSE q \in 1..Len(s) : s[q] = "-"
             a == DecimalValue(SubSeq(s, 1, p - 1))
             b == DecimalValue(SubSeq(s, p + 1, Len(s)))
         IN IF a <= b THEN [k \in 1..(b - a + 1) |-> a + k - 1] ELSE <<>>
    ELSE <<>>

(***************************************************************************)
(* C17 (as claimed): whatever expression reached the parser, the range it  *)
(* returned holds integers >= 1 only, in strictly ascending order.         *)
(***************************************************************************)
C17_RangePositiveAscending ==
    Parsed =>
        /\ \A k \in 1..Len(pages) : pages[k] >= 1
        /\ \A k \in 1..(Len(pages) - 1) : pages[k] < pages[k + 1]

\* the part of C17 that holds: a parsed range is strictly ascending
C17_RangeAscending ==
    Parsed => \A k \in 1..(Len(pages) - 1) : pages[k] < pages[k + 1]

(***************************************************************************)
(* C18 (as claimed): the range the parser returned is exactly the range    *)
(* the expression denotes: [a..b] for "a-b" with a <= b, [n] for "n", and  *)
(* the empty range for a > b, a bound that is no integer and any other     *)
(* input.                                                                  *)
(***************************************************************************)
C18_ParserReturnsDenotedRange ==
    Parsed => pages = Denoted(req.page_range)

\* the part of C18 that holds: expressions "n" and "a-b" are parsed as denoted
C18_WellFormedParsedAsDenoted ==
    (Parsed /\ Denoted(req.page_range) # <<>>) => pages = Denoted(req.page_range)

\* the artifact has been written to the response: res.send of the PDF, or the
\* archive finalized
ArtifactSent ==
    IsBatch /\ \E r \in OpIdx("respond") : trace[r].how \in {"send", "finalize"}

(***************************************************************************)
(* C19: a batch response that delivered the artifact carries the           *)
(* X-Failed-Pages header, and X-Failed-Pages in                            *)
(* Access-Control-Expose-Headers, exactly when the failed list is not      *)
(* empty; both were set before anything of the artifact was written; the   *)
(* header's JSON content is the failed list, which is in ascending page    *)
(* order, and the complete event of the run carries that same list.        *)
(***************************************************************************)
C19_FailedPagesHeader ==
    ArtifactSent =>
        /\ ("X-Failed-Pages" \in DOMAIN res.headers) <=> (Len(failedPages) > 0)
        /\ ("Access-Control-Expose-Headers" \in DOMAIN res.headers)
              <=> (Len(failedPages) > 0)
        /\ Len(failedPages) > 0 =>
             /\ res.headers["X-Failed-Pages"] = [json |-> failedPages]
             /\ res.headers["Access-Control-Expose-Headers"] = "X-Failed-Pages"
             /\ \A h \in OpIdx("setHeader") : \A a \in ArtifactIdx :
                  trace[h].name \in {"X-Failed-Pages", "Access-Control-Expose-Headers"}
                     => h < a
        /\ \A k \in 1..(Len(failedPages) - 1) :
             failedPages[k].page < failedPages[k + 1].page
        /\ \A e \in EmitIdx("complete") : trace[e].ev.failedPages = failedPages
        /\ pc = "done" => Cardinality(EmitIdx("complete")) = 1

\* a delivered artifact of a run in which two pages failed and one was fetched
C19_Witness ==
    /\ ArtifactSent /\ pc = "done"
    /\ Len(failedPages) = 2 /\ Len(images) = 1
    /\ "X-Failed-Pages" \in DOMAIN res.headers
    /\ EmitIdx("complete") # {}

IsSingle == req.kind = "single"

\* the selector never matched an element within the timeout of waitForSelector
SelectorTimedOut(o) ==
    /\ o.tag = "throw" /\ o.name = "TimeoutError"
    /\ o.message = "Waiting for selector failed: 30000ms exceeded"

\* the request has been answered once, with an {error} body and the given status
AnsweredError(status) ==
    /\ Cardinality(OpIdx("respond")) = 1
    /\ \A r \in OpIdx("respond") : trace[r].how = "json" /\ trace[r].status = status
    /\ res.statusCode = status
    /\ Len(res.body) = 1 /\ DOMAIN res.body[1] = {"error"}

\* the request has been answered once, with the image
AnsweredImage ==
    /\ Cardinality(OpIdx("respond")) = 1
    /\ \A r \in OpIdx("respond") : trace[r].how = "send" /\ trace[r].status = 200
    /\ res.statusCode = 200
    /\ "Content-Disposition" \in DOMAIN res.headers

\* the status the single-page endpoint answers with, a selector that never
\* materialized being answered with selectorStatus
SingleAnswers(selectorStatus) ==
    /\ SingleMissing(req) => (AnsweredError(400) /\ ~Launched /\ choices = <<>>)
    /\ ~SingleMissing(req) =>
         \A k \in 1..Len(choices) :
           LET o == choices[k].outcome
           IN IF choices[k].at # "fetch"
              THEN o.tag = "throw" => AnsweredError(500)
              ELSE /\ SelectorTimedOut(o) => AnsweredError(selectorStatus)
                   /\ o.tag = "null" => AnsweredError(404)
                   /\ (o.tag = "throw" /\ ~SelectorTimedOut(o)) => AnsweredError(500)
                   /\ (o.tag = "ok" /\ ~parseDataURI(o.src).match) => AnsweredError(500)
                   /\ (o.tag = "ok" /\ parseDataURI(o.src).match) => AnsweredImage

(***************************************************************************)
(* C20 (as claimed): a finished request to the single-page endpoint has    *)
(* been answered exactly once: 400 without a browser launch when a field   *)
(* is missing, 404 when the image was not found or the selector never      *)
(* materialized within the timeout, 500 when the source is no data URI or  *)
(* anything else failed, and the image otherwise.                          *)
(***************************************************************************)
C20_SingleEndpointStatus ==
    (IsSingle /\ pc = "done") => SingleAnswers(404)

\* what the endpoint does: as claimed, but a selector that never materialized
\* is answered 500 like any other exception
C20_SelectorTimeoutAnswered500 ==
    (IsSingle /\ pc = "done") => SingleAnswers(500)

(***************************************************************************)
(* C13: a batch run whose awaits settle as those of a run without progress *)
(* channel did, while a client opens and closes the channel at any moment, *)
(* is never without a next step of the handler before it is done, and when *)
(* it is done it has navigated to the same pages in the same order, holds  *)
(* the same fetched and failed lists, has given the same HTTP response and *)
(* left the browser in the same state as the run without channel.          *)
(***************************************************************************)
C13_ChannelDoesNotChangeRun ==
    twin.run = 2 =>
        /\ pc # "done" => ENABLED HandlerStep
        /\ Len(choices) <= Len(twin.script)
        /\ choices = SubSeq(twin.script, 1, Len(choices))
        /\ pc = "done" => (Observed = twin.first[1] /\ choices = twin.script)

\* a second run, done, of two pages of which one was fetched, whose channel was
\* open for its first events and closed before the run was over
C13_Witness ==
    /\ twin.run = 2 /\ pc = "done"
    /\ Len(images) = 1 /\ Len(failedPages) = 1
    /\ res.finished
    /\ sseClients = NoClients
    /\ Len(written) >= 1
    /\ written[1] # <<>>
    /\ \A k \in 1..Len(written) : \A j \in 1..Len(written[k]) :
         written[k][j].type # "complete"
    /\ EmitIdx("complete") # {}
(***************************************************************************)
(* C21: with output format "zip" the entries of the archive are in         *)
(* strictly ascending page-number order (so no two entries share a page    *)
(* number), and each entry is named by its page number and the extension   *)
(* that parseDataURI reads from the source fetched for that very page, and *)
(* holds that source's payload.                                            *)
(***************************************************************************)
IsEntry(e) == "extension" \in DOMAIN e

\* the entries appended to the archive piped into the response
ArchiveEntries == SelectSeq(res.body, IsEntry)

C21_ZipEntriesAscendingNamed ==
    (IsBatch /\ req.output_format = "zip" /\ res.body # <<>>) =>
        \A entries \in {ArchiveEntries} : \A fetched \in {FetchOutcomes(choices)} :
           /\ \A n \in 1..(Len(entries) - 1) : entries[n].page < entries[n + 1].page
           /\ \A n \in 1..Len(entries) :
                \E k \in 1..Len(fetched) :
                   /\ pages[k] = entries[n].page
                   /\ fetched[k].tag = "ok"
                   /\ \A own \in {imageInfoOf(fetched[k].src)} :
                         /\ own.match
                         /\ entries[n].extension = own.extension
                         /\ entries[n].data = own.data

\* a finalized archive of two pages whose sources are of different types
C21_Witness ==
    /\ IsBatch /\ req.output_format = "zip" /\ ArtifactSent
    /\ Len(ArchiveEntries) = 2
    /\ ArchiveEntries[1].extension = <<"svg">>
    /\ ArchiveEntries[2].extension = <<"png">>
    /\ ArchiveEntries[1].page + 1 = ArchiveEntries[2].page

(***************************************************************************)
(* C22: with output format "pdf", once the document has been created its   *)
(* pages are, in ascending page order, exactly the fetched pages whose      *)
(* source is a PNG or JPEG that embeds: an image of another type or one     *)
(* whose embedding throws is left out and the images after it are still     *)
(* processed; and when saving the document succeeds the request ends with   *)
(* the PDF in a 200 response and no error event, whatever was skipped.      *)
(***************************************************************************)
SettledAt(at) == {k \in 1..Len(choices) : choices[k].at = at}

SettledOk(at) == \E k \in SettledAt(at) : choices[k].outcome.tag = "ok"

\* the source is a base64 data URI of a PNG or JPEG whose bytes are such an image
Embeds(src) ==
    LET info == imageInfoOf(src)
    IN /\ info.match
       /\ \/ info.mimeType = <<"image", "/", "png">> /\ info.data = <<"iVBORw0KGgo">>
          \/ info.mimeType \in {<<"image", "/", "jpeg">>, <<"image", "/", "jpg">>}
               /\ info.data = <<"/9j/4AAQ">>

IsPdfRun == IsBatch /\ req.output_format = "pdf"

C22_PdfSkipsUnembeddable ==
    (IsPdfRun /\ SettledOk("pdfCreate")) =>
        \A fetched \in {FetchOutcomes(choices)} :
           /\ \A n \in 1..(Len(pdfDoc) - 1) : pdfDoc[n].page < pdfDoc[n + 1].page
           /\ PagesIn(pdfDoc) =
                {pages[k] : k \in {j \in 1..Len(fetched) :
                                     fetched[j].tag = "ok" /\ Embeds(fetched[j].src)}}
           /\ SettledOk("pdfSave") =>
                /\ res.finished /\ res.statusCode = 200
                /\ res.body = <<[pdf |-> pdfDoc]>>
                /\ res.headers["Content-Type"] = "application/pdf"
                /\ EmitIdx("error") = {}
                /\ \A r \in OpIdx("respond") : trace[r].how = "send"

\* a PDF delivered from two fetched pages of which the first could not be embedded
C22_Witness ==
    /\ IsPdfRun /\ ArtifactSent /\ pc = "done"
    /\ Len(images) = 2
    /\ images[1].base64Image \in {SrcBadPng, SrcSvg}
    /\ pdfDoc = <<[page |-> images[2].page]>>

(***************************************************************************)
(* C23: a source "data:image/" subtype ";base64," payload, the subtype     *)
(* being the non-empty text up to the first ";base64,", is decoded to the   *)
(* mime type "image/" subtype, to exactly that payload, and to the          *)
(* extension that is the subtype cut at its first "+" with every            *)
(* non-alphanumeric character removed; any other source is decoded to the   *)
(* format error, with no mime type, extension or payload.  Read off the     *)
(* answer of the single-page handler, which passes all three fields on.     *)
(***************************************************************************)
\* the source the fetch of the single page returned and the handler decoded
DecodedSource == FetchOutcomes(choices)[1].src

Decoded ==
    /\ IsSingle /\ pc \in {"finally", "done"}
    /\ Len(FetchOutcomes(choices)) = 1
    /\ FetchOutcomes(choices)[1].tag = "ok"

\* where the first ";base64," after a non-empty subtype stands, 0 for none
SplitAt(src) ==
    IF ~(Len(src) >= 3 /\ src[1] = "data:" /\ src[2] = "image" /\ src[3] = "/") THEN 0
    ELSE IF \E k \in 5..Len(src) : src[k] = B64
    THEN CHOOSE k \in 5..Len(src) :
            src[k] = B64 /\ \A j \in 5..(k - 1) : src[j] # B64
    ELSE 0

\* the text before the first "+"
BeforePlus(sub) ==
    IF \E p \in 1..Len(sub) : sub[p] = "+"
    THEN SubSeq(sub, 1, (CHOOSE p \in 1..Len(sub) :
                            sub[p] = "+" /\ \A q \in 1..(p - 1) : sub[q] # "+") - 1)
    ELSE sub

C23_DataUriDecoding ==
    Decoded =>
        LET src == DecodedSource
            k == SplitAt(src)
        IN IF k # 0
           THEN /\ res.statusCode = 200
                /\ res.headers["Content-Type"] = <<"image", "/">> \o SubSeq(src, 4, k - 1)
                /\ res.headers["Content-Disposition"] =
                      <<"attachment", req.page, SanitizeAll(BeforePlus(SubSeq(src, 4, k - 1)))>>
                /\ res.body = <<SubSeq(src, k + 1, Len(src))>>
           ELSE /\ res.statusCode = 500
                /\ res.body = <<[error |-> "Invalid Base64 image format."]>>
                /\ DOMAIN res.headers = {"Content-Type"}
                /\ res.headers["Content-Type"] = "application/json"

\* a decoded source of type png+xml with a payload: the qualifier is removed
C23_Witness ==
    /\ Decoded
    /\ DecodedSource = <<"data:", "image", "/", "png", "+", "xml", B64, "-">>
    /\ res.headers["Content-Type"] = <<"image", "/", "png", "+", "xml">>
    /\ res.headers["Content-Disposition"] = <<"attachment", 1, <<"png">>>>
    /\ res.body = <<<<"-">>>>

\* a source that starts with "data:image" and is no base64 data URI
C23_WitnessFormatError ==
    /\ Decoded
    /\ DecodedSource = <<"data:", "image", "/", "png", "-", "xml">>
    /\ res.statusCode = 500

(***************************************************************************)
(* C24 (as claimed): when a ZIP batch run has delivered its archive, every  *)
(* page of the requested range has an entry in the archive or a record in   *)
(* the failed-pages report.                                                 *)
(***************************************************************************)
IsZipRun == IsBatch /\ req.output_format = "zip"

C24_EveryPageAccounted ==
    (IsZipRun /\ ArtifactSent /\ pc = "done") =>
        \A k \in 1..Len(pages) :
           \/ pages[k] \in PagesIn(ArchiveEntries)
           \/ pages[k] \in PagesIn(failedPages)

\* the part of C24 that holds: the pages in neither place are those whose
\* fetched source is no base64 data URI, and the report the caller receives
\* (header and complete event) is the failed list
C24_OnlyUndecodablePagesLost ==
    (IsZipRun /\ ArtifactSent /\ pc = "done") =>
        LET fetched == FetchOutcomes(choices)
        IN /\ Len(fetched) = Len(pages)
           /\ \A k \in 1..Len(pages) :
                \/ pages[k] \in PagesIn(ArchiveEntries)
                \/ pages[k] \in PagesIn(failedPages)
                \/ fetched[k].tag = "ok" /\ SplitAt(fetched[k].src) = 0
           /\ \A e \in EmitIdx("complete") : trace[e].ev.failedPages = failedPages

(***************************************************************************)
(* C25: a batch run emits at most one terminal event, complete or error,    *)
(* and once it has emitted one it emits no further event of any type.       *)
(***************************************************************************)
TerminalIdx == EmitIdx("complete") \cup EmitIdx("error")

C25_AtMostOneTerminalEvent ==
    IsBatch =>
        \A terminal \in {TerminalIdx} :
           /\ Cardinality(terminal) <= 1
           /\ terminal # {} => \A t \in terminal : \A e \in OpIdx("emit") : e <= t

\* a finished run whose loop emitted log and progress events and whose
\* assembly then failed: the error event is its last event
C25_Witness ==
    /\ IsBatch /\ pc = "done"
    /\ EmitIdx("error") # {}
    /\ EmitIdx("progress") # {}
    /\ EmitIdx("log") # {}

(***************************************************************************)
(* C26 (as claimed): whatever the order of subscribe and disconnect         *)
(* requests, every subscription whose connection is open has an entry in    *)
(* the registry under its channel id that leads to an open subscription of  *)
(* that id -- no disconnect has removed the entry from under it.            *)
(***************************************************************************)
OpenConns == {c \in 1..Len(conns) : conns[c].open}

C26_OpenSubscriptionsReachable ==
    \A c \in OpenConns :
       /\ conns[c].clientId \in DOMAIN sseClients
       /\ sseClients[conns[c].clientId] \in OpenConns
       /\ conns[sseClients[conns[c].clientId]].clientId = conns[c].clientId

\* the part of C26 that holds: as long as no two subscriptions have used the
\* same channel id, every open subscription is the one its id is registered to
C26_DistinctIdsReachable ==
    (\A c, d \in 1..Len(conns) : c # d => conns[c].clientId # conns[d].clientId) =>
        \A c \in OpenConns :
           /\ conns[c].clientId \in DOMAIN sseClients
           /\ sseClients[conns[c].clientId] = c

(***************************************************************************)
(* C27: every entry of the registry leads to a connection that is open and  *)
(* was opened under the entry's id, so no entry points at a connection that *)
(* has closed, and the registry is empty once every connection has closed.  *)
(***************************************************************************)
C27_RegistryHoldsOpenConnections ==
    /\ \A id \in DOMAIN sseClients :
          /\ sseClients[id] \in OpenConns
          /\ conns[sseClients[id]].clientId = id
    /\ OpenConns = {} => sseClients = NoClients

\* two subscriptions under different ids have come and gone
C27_Witness ==
    /\ Len(conns) = 2
    /\ conns[1].clientId # conns[2].clientId
    /\ OpenConns = {}
    /\ sseClients = NoClients

(***************************************************************************)
(* C28 (as claimed): each connection has received a run of consecutive      *)
(* events of the handler's emissions, in emission order, and a connection   *)
(* opened under the request's channel id before the first event that is     *)
(* still open has received every event emitted so far.                      *)
(***************************************************************************)
Consecutive(part, whole) ==
    \E a \in 0..Len(whole) :
       /\ a + Len(part) <= Len(whole)
       /\ part = SubSeq(whole, a + 1, a + Len(part))

C28_EarlyOpenSubscriptionReceivesAll ==
    /\ \A c \in 1..Len(conns) : Consecutive(written[c], Emitted(trace))
    /\ \A c \in OpenConns :
          (conns[c].clientId = req.clientId /\ conns[c].early)
             => written[c] = Emitted(trace)

\* the part of C28 that holds, step by step: the events a step emits are
\* written to the connection registered under the request's id when the step
\* is taken and to no other, and nothing else is ever written to a connection
C28_DeliveredToRegisteredOnly ==
    [][\A c \in 1..Len(written') :
         LET had == IF c <= Len(written) THEN Len(written[c]) ELSE 0
             got == SubSeq(written'[c], had + 1, Len(written'[c]))
             now == SubSeq(Emitted(trace'), Len(Emitted(trace)) + 1, Len(Emitted(trace')))
         IN got = IF /\ req.clientId \in DOMAIN sseClients
                     /\ sseClients[req.clientId] = c
                  THEN now ELSE <<>>]_vars

\* the part of C28 that holds of a subscription nobody interferes with: the
\* only connection ever opened under the request's id, opened before the
\* first event and still open, has received every event
C28_SoleEarlySubscriptionReceivesAll ==
    \A c \in OpenConns :
       (/\ conns[c].clientId = req.clientId /\ conns[c].early
        /\ \A d \in 1..Len(conns) : d # c => conns[d].clientId # req.clientId)
          => written[c] = Emitted(trace)

(***************************************************************************)
(* C29 (as claimed): while the batch request of a click has not settled,    *)
(* the form controls are disabled.                                          *)
(***************************************************************************)
InFlight(k) == k \in 1..Len(clicks) /\ clicks[k].http = "pending"

C29_ControlsDisabledWhileInFlight ==
    \A k \in 1..Len(clicks) : InFlight(k) => ~uiEnabled

\* the part of C29 that holds: the controls come back while a request is in
\* flight only through closeConnection, that is with some click's stream closed
C29_EnabledOnlyByCloseConnection ==
    (uiEnabled /\ clicks # <<>>) => \E k \in 1..Len(clicks) : clicks[k].es = "closed"

(***************************************************************************)
(* C30 (as claimed): after every batch click that passes the field check,   *)
(* the controls are eventually enabled again with that click's event        *)
(* stream closed.                                                           *)
(***************************************************************************)
Clicked(k) == k \in 1..Len(clicks)

Released(k) == Clicked(k) /\ uiEnabled /\ clicks[k].es = "closed"

C30_ControlsEventuallyReenabled ==
    \A k \in 1..MaxClicks : Clicked(k) ~> Released(k)

\* the part of C30 that holds: a click whose progress connection reached the
\* server before the run emitted its first event is released
C30_ReleasedWhenSubscribedEarly ==
    \A k \in 1..MaxClicks :
       (Clicked(k) /\ clicks[k].conn # 0 /\ conns[clicks[k].conn].early)
          ~> Released(k)

(***************************************************************************)
(* C31 (as claimed): when the server answers a download request with a      *)
(* status that is not OK and a JSON body {error: message}, the client's     *)
(* response handler fails with exactly that message, and the status area,   *)
(* when it shows the handler's failure, shows that message.                 *)
(***************************************************************************)
AnsweredWithError(k) ==
    /\ k \in 1..Len(clicks)
    /\ clicks[k].http = "settled"
    /\ clicks[k].status # 0
    /\ clicks[k].status \notin 200..299
    /\ "Content-Type" \in DOMAIN clicks[k].headers
    /\ clicks[k].headers["Content-Type"] = "application/json"

ShowsFailure == statusArea.textContent # <<>> /\ Head(statusArea.textContent) = "Error: "

C31_HandlerFailsWithServerMessage ==
    \A k \in 1..Len(clicks) :
       AnsweredWithError(k) =>
          /\ clicks[k].error = <<clicks[k].body[1].error>>
          /\ ShowsFailure => statusArea.textContent = <<"Error: ", clicks[k].body[1].error>>

\* what the handler does instead: for every answer that is not OK, with a
\* JSON body or without, it fails with the text made from the status line
C31_HandlerFailsWithStatusLine ==
    \A k \in 1..Len(clicks) :
       AnsweredWithError(k) =>
          clicks[k].error = <<"Server returned an error: ">> \o ToStr(clicks[k].status)
                               \o <<" ", statusText(clicks[k].status)>>

\* and the status area shows what the handler failed with, at the step in
\* which the failure is caught
C31_StatusAreaShowsCaughtError ==
    [][\A k \in 1..Len(clicks) :
          (clicks[k].http = "pending" /\ AnsweredWithError(k)')
             => statusArea' = updateStatus(<<"Error: ">> \o clicks'[k].error, TRUE)]_vars

\* an answer that is not OK and carries the server's message has been handled
C31_ErrorAnswerHandled ==
    \E k \in 1..Len(clicks) :
       /\ AnsweredWithError(k)
       /\ clicks[k].body[1].error = "No images could be downloaded."
       /\ ShowsFailure

====
